---- MODULE Spec2Model ----
(***************************************************************************)
(* A model of the core of self-chain-core: the 20/20/50/10 transaction     *)
(* selector, the coordinator's voting round, the VotingSystem, the block   *)
(* builder, the v1 RoundState and quorum threshold, and the delegated      *)
(* validator keys with their revocation certificates.  Each component has  *)
(* its own specification (SpecSel, SpecCoord, SpecVS, SpecBuilder,         *)
(* SpecRound, SpecQuorum, SpecKey, SpecDerive, SpecRev); a specification   *)
(* leaves the variables of the other components untouched.  The pure       *)
(* functions (ValidatedProposal::new, calculate_new_color,                 *)
(* get_point_to_coin_ratio, distribute_rewards) are applied to arguments   *)
(* drawn in the initial state (SpecProposal, SpecColor, SpecRatio,         *)
(* SpecRewards).                                                           *)
(***************************************************************************)
EXTENDS Integers, Sequences, FiniteSets, TLC

VARIABLES
    \* TransactionSelector / mempool snapshot
    mempool,            \* Vec<Transaction> handed to select_transactions
    config,             \* TransactionSelectorConfig
    selected,           \* Result of select_transactions, or None before the call
    efficiency,         \* Result of calculate_block_efficiency, or None before the call
    \* CoordinatorNode
    current_round,      \* Option<VotingRound>
    completed_rounds,   \* Vec<VotingRound>
    voting_result,      \* last VotingResult returned by end_voting_round, or None
    first_vote,         \* history: first vote each validator cast in the active round
    add_calls,          \* history: number of add_vote calls accepted so far
    \* VotingSystem
    vs_round,           \* current_round: Option<VotingRound>
    vs_votes,           \* votes: HashMap<String, Vote>
    vs_first,           \* history: first block hash each validator voted for since the round began
    vs_out,             \* result of the last VotingSystem call
    vs_call,            \* history: the last VotingSystem call and the state it was made in
    now,                \* SystemTime::now() in seconds
    \* RoundState
    rs,                 \* the RoundState
    rs_call,            \* history: the last RoundState call and the state it ran on
    \* ConsensusConfig::quorum_threshold
    q_committee_size,     \* the argument
    quorum,             \* the value returned, or None before the call
    \* BlockBuilderNode
    bb_mempool,         \* mempool: Vec<Transaction>
    bb_stats,           \* stats: BlockBuilderStats
    bb_out,             \* result of the last build_block call
    bb_built,           \* history: the transactions of every block returned so far
    bb_added,           \* history: the transactions handed to add_to_mempool so far
    \* KeyManager / ValidatorKey
    master_key,         \* Option<MasterKey>
    validator_keys,     \* Vec<ValidatorKey>
    revoke_called,      \* history: set of indexes of validator_keys on which revoke ran
    derived_from,       \* history: the MasterKey each validator key was derived from
    key_out,            \* result of the last ValidatorKey call
    \* Revocation
    revocation,         \* Option<Revocation>: the certificate at hand
    verify_out,         \* the last verify call: the key it was given and its result
    \* Calls of functions that keep no state between calls
    call_args,          \* the arguments of the call
    call_out,           \* the value returned, or None before the call
    \* Tasks calling one VotingSystem concurrently
    tasks,              \* per task: the call in progress, its place in it and its locals
    \* Validator
    wallet_colors,      \* wallet_colors: HashMap<String, WalletColor>
    color_reads,        \* history: the colors read for each wallet since its last update
    wallet_out          \* the last call on the wallet colors and its result

selVars   == <<mempool, config, selected, efficiency>>
coordVars == <<current_round, completed_rounds, voting_result, first_vote, add_calls>>
vsVars    == <<vs_round, vs_votes, vs_first, vs_out, vs_call, now>>
roundVars == <<rs, rs_call>>
quorumVars == <<q_committee_size, quorum>>
builderVars == <<bb_mempool, bb_stats, bb_out, bb_built, bb_added>>
keyVars   == <<master_key, validator_keys, revoke_called, derived_from, key_out>>
revVars   == <<revocation, verify_out>>
callVars  == <<call_args, call_out>>
taskVars  == <<tasks>>
walletVars == <<wallet_colors, color_reads, wallet_out>>
vars      == <<selVars, coordVars, vsVars, roundVars, quorumVars, builderVars, keyVars, revVars,
               callVars, taskVars, walletVars>>

\* Option<T>: None is the empty tuple, Some(x) the one-element tuple
None == <<>>
Some(x) == <<x>>

\* The variables a component's actions leave alone
notSel   == <<coordVars, vsVars, roundVars, quorumVars, builderVars, keyVars, revVars,
               callVars, taskVars, walletVars>>
notCoord == <<selVars, vsVars, roundVars, quorumVars, builderVars, keyVars, revVars,
               callVars, taskVars, walletVars>>
notVS    == <<selVars, coordVars, roundVars, quorumVars, builderVars, keyVars, revVars,
               callVars, taskVars, walletVars>>
notRound == <<selVars, coordVars, vsVars, quorumVars, builderVars, keyVars, revVars,
               callVars, taskVars, walletVars>>
notQuorum == <<selVars, coordVars, vsVars, roundVars, builderVars, keyVars, revVars,
               callVars, taskVars, walletVars>>
notBuilder == <<selVars, coordVars, vsVars, roundVars, quorumVars, keyVars, revVars,
               callVars, taskVars, walletVars>>
notKey   == <<selVars, coordVars, vsVars, roundVars, quorumVars, builderVars, revVars,
               callVars, taskVars, walletVars>>
notRev   == <<selVars, coordVars, vsVars, roundVars, quorumVars, builderVars, keyVars,
               callVars, taskVars, walletVars>>
\* The key manager's clock is `now`, which its actions may advance
notKeyNorClock == <<selVars, coordVars, vs_round, vs_votes, vs_first, vs_out, vs_call,
                    roundVars, quorumVars, builderVars, revVars, callVars, taskVars, walletVars>>
notCall  == <<selVars, coordVars, vsVars, roundVars, quorumVars, builderVars, keyVars, revVars,
               taskVars, walletVars>>
\* What the steps of the concurrent tasks leave alone
notTasks == <<selVars, coordVars, vs_out, vs_call, roundVars, quorumVars, builderVars, keyVars,
               revVars, callVars, walletVars>>
notWallet == <<selVars, coordVars, vsVars, roundVars, quorumVars, builderVars, keyVars, revVars,
               callVars, taskVars>>

\* No call of a stateless function has been made
CallIdle ==
    /\ call_args = <<>>
    /\ call_out = None

Min(a, b) == IF a <= b THEN a ELSE b
Max(a, b) == IF a >= b THEN a ELSE b
Abs(x) == IF x < 0 THEN 0 - x ELSE x

(***************************************************************************)
(* Natural numbers of any size, for u64, i64 and f64 values beyond the     *)
(* integers of the model checker: a number is the sequence of its digits   *)
(* in base 2^15, least significant first, without leading zero digits.     *)
(***************************************************************************)
LimbBase == 32768
LimbBits == 15

RECURSIVE Pow2(_)
Pow2(k) == IF k = 0 THEN 1 ELSE 2 * Pow2(k - 1)

RECURSIVE BigNorm(_)
BigNorm(a) ==
    IF a = <<>> THEN <<>>
    ELSE IF a[Len(a)] = 0 THEN BigNorm(SubSeq(a, 1, Len(a) - 1))
    ELSE a

BigZero == <<>>

\* A number below 2^31 as a big number
BigFromInt(n) ==
    BigNorm(<<n % LimbBase, (n \div LimbBase) % LimbBase, n \div (LimbBase * LimbBase)>>)

BigLimb(a, i) == IF i <= Len(a) THEN a[i] ELSE 0

RECURSIVE BigAddFrom(_, _, _, _, _)
BigAddFrom(a, b, i, carry, acc) ==
    IF i > Len(a) /\ i > Len(b)
    THEN IF carry = 0 THEN acc ELSE Append(acc, carry)
    ELSE LET t == BigLimb(a, i) + BigLimb(b, i) + carry
         IN  BigAddFrom(a, b, i + 1, t \div LimbBase, Append(acc, t % LimbBase))

BigAdd(a, b) == BigNorm(BigAddFrom(a, b, 1, 0, <<>>))

\* -1, 0 or 1 as a is below, equal to or above b
RECURSIVE BigCmpFrom(_, _, _)
BigCmpFrom(a, b, i) ==
    IF i = 0 THEN 0
    ELSE IF a[i] < b[i] THEN 0 - 1
    ELSE IF a[i] > b[i] THEN 1
    ELSE BigCmpFrom(a, b, i - 1)

BigCmp(a, b) ==
    IF Len(a) < Len(b) THEN 0 - 1
    ELSE IF Len(a) > Len(b) THEN 1
    ELSE BigCmpFrom(a, b, Len(a))

BigLeq(a, b) == BigCmp(a, b) <= 0
BigLess(a, b) == BigCmp(a, b) < 0

\* a - b for a >= b
RECURSIVE BigSubFrom(_, _, _, _, _)
BigSubFrom(a, b, i, borrow, acc) ==
    IF i > Len(a) THEN acc
    ELSE LET t == a[i] - BigLimb(b, i) - borrow
         IN  IF t < 0
             THEN BigSubFrom(a, b, i + 1, 1, Append(acc, t + LimbBase))
             ELSE BigSubFrom(a, b, i + 1, 0, Append(acc, t))

BigSub(a, b) == BigNorm(BigSubFrom(a, b, 1, 0, <<>>))

\* a * n for a digit n
RECURSIVE BigMulSmallFrom(_, _, _, _, _)
BigMulSmallFrom(a, n, i, carry, acc) ==
    IF i > Len(a)
    THEN IF carry = 0 THEN acc ELSE Append(acc, carry)
    ELSE LET t == a[i] * n + carry
         IN  BigMulSmallFrom(a, n, i + 1, t \div LimbBase, Append(acc, t % LimbBase))

BigMulSmall(a, n) == BigNorm(BigMulSmallFrom(a, n, 1, 0, <<>>))

\* floor(a / d) for a digit d > 0
RECURSIVE BigDivSmallFrom(_, _, _, _, _)
BigDivSmallFrom(a, d, i, rem, acc) ==
    IF i = 0 THEN acc
    ELSE LET t == rem * LimbBase + a[i]
         IN  BigDivSmallFrom(a, d, i - 1, t % d, <<t \div d>> \o acc)

BigDivSmall(a, d) == BigNorm(BigDivSmallFrom(a, d, Len(a), 0, <<>>))

\* a * LimbBase^k
BigShiftLimbs(a, k) == IF a = <<>> THEN <<>> ELSE [i \in 1..k |-> 0] \o a

RECURSIVE BigMulFrom(_, _, _, _)
BigMulFrom(a, b, i, acc) ==
    IF i > Len(b) THEN acc
    ELSE BigMulFrom(a, b, i + 1,
                    BigAdd(acc, BigShiftLimbs(BigMulSmall(a, b[i]), i - 1)))

BigMul(a, b) == BigMulFrom(a, b, 1, <<>>)

\* a * 2^s and floor(a / 2^s)
BigShl(a, s) ==
    BigShiftLimbs(BigMulSmall(a, Pow2(s % LimbBits)), s \div LimbBits)

BigShr(a, s) ==
    LET q == s \div LimbBits
        t == s % LimbBits
        rest == IF q >= Len(a) THEN <<>> ELSE SubSeq(a, q + 1, Len(a))
    IN  BigNorm([i \in 1..Len(rest) |->
                    (rest[i] \div Pow2(t))
                      + (BigLimb(rest, i + 1) % Pow2(t)) * Pow2(LimbBits - t)])

\* The number of binary digits of a
RECURSIVE BitsOfLimb(_)
BitsOfLimb(n) == IF n = 0 THEN 0 ELSE 1 + BitsOfLimb(n \div 2)

BigBitLen(a) ==
    IF a = <<>> THEN 0 ELSE LimbBits * (Len(a) - 1) + BitsOfLimb(a[Len(a)])

BigIsOdd(a) == a # <<>> /\ a[1] % 2 = 1

\* A number written in decimal, three digits to a group: Dec(<<1, 234>>) is 1234
RECURSIVE DecFrom(_, _, _)
DecFrom(groups, i, acc) ==
    IF i > Len(groups) THEN acc
    ELSE DecFrom(groups, i + 1, BigAdd(BigMulSmall(acc, 1000), BigFromInt(groups[i])))

Dec(groups) == DecFrom(groups, 1, <<>>)

\* Sequences over S of length at most n
SeqUpTo(S, n) == UNION {[1..k -> S] : k \in 0..n}

(***************************************************************************)
(* Bounds of the model                                                     *)
(***************************************************************************)
MaxMempool == 4          \* longest mempool snapshot
MaxBlockTx == 3          \* largest max_transactions_per_block explored

(***************************************************************************)
(* Transactions (src/src/blockchain/mod.rs).  `size` stands for the value  *)
(* of Transaction::calculate_size, the sum of the lengths of the fields.   *)
(***************************************************************************)
Tx(id, amount, size, timestamp) ==
    [id |-> id, amount |-> amount, size |-> size, timestamp |-> timestamp]

\* The transactions mempools are drawn from: two share a price ("a", "b"),
\* two share an id ("a"), and the timestamps do not follow the prices.
TxPool ==
    { Tx("a", 0, 50, 1),
      Tx("b", 0, 50, 2),
      Tx("c", 2000000, 50, 1),
      Tx("a", 1000000, 50, 3),
      Tx("d", 5000000, 250, 0) }

calculate_size(tx) == tx.size

\* fn calculate_point_price
calculate_point_price(tx) ==
    LET base_fee == Max(calculate_size(tx) \div 100, 1)
        amount_fee == tx.amount \div 1000000
    IN  base_fee + amount_fee

\* TransactionWithMetadata::from_transaction
from_transaction(tx) ==
    [transaction |-> tx,
     point_price |-> calculate_point_price(tx),
     point_data  |-> calculate_size(tx),
     timestamp   |-> tx.timestamp]

\* A target that rounds the share of the block down
FloorFrac(n, num, den) == (n * num) \div den

\* (n as f64 * (num/den)).ceil() as usize; for the fractions 0.20, 0.50 and
\* 0.10 and n below 5000 the f64 product rounds to the exact ceiling.
CeilFrac(n, num, den) == (n * num + den - 1) \div den

RECURSIVE SumPrices(_)
SumPrices(s) == IF s = <<>> THEN 0 ELSE Head(s).point_price + SumPrices(Tail(s))

\* The comparators handed to sort_by, as Ordering values -1 / 0 / 1
CmpInt(x, y) == IF x < y THEN 0 - 1 ELSE IF x > y THEN 1 ELSE 0

Cmp(stage, avg, a, b) ==
    CASE stage = "high" -> CmpInt(b.point_price, a.point_price)
      [] stage = "low"  -> CmpInt(a.point_price, b.point_price)
      [] stage = "avg"  ->
            LET da == Abs(a.point_price - avg)
                db == Abs(b.point_price - avg)
            IN  IF CmpInt(da, db) # 0 THEN CmpInt(da, db)
                ELSE CmpInt(a.point_price, b.point_price)
      [] stage = "old"  -> CmpInt(a.timestamp, b.timestamp)

\* Vec::sort_by is a stable sort: elements that compare Equal keep their order.
RECURSIVE InsertStable(_, _, _, _)
InsertStable(stage, avg, x, s) ==
    IF s = <<>> THEN <<x>>
    ELSE IF Cmp(stage, avg, x, Head(s)) < 0 THEN <<x>> \o s
    ELSE <<Head(s)>> \o InsertStable(stage, avg, x, Tail(s))

RECURSIVE SortFrom(_, _, _, _, _)
SortFrom(stage, avg, s, i, acc) ==
    IF i > Len(s) THEN acc
    ELSE SortFrom(stage, avg, s, i + 1, InsertStable(stage, avg, s[i], acc))

\* A sort that leaves the candidates in mempool order
sort_by_nothing(stage, avg, s) == s

sort_by(stage, avg, s) == SortFrom(stage, avg, s, 1, <<>>)

\* The closure take_unique: up to `count` candidates whose id is not yet in
\* selected_ids, each id entering selected_ids as it is taken.
RECURSIVE TakeFrom(_, _, _, _, _)
TakeFrom(candidates, count, i, out, ids) ==
    IF i > Len(candidates) \/ Len(out) >= count THEN [out |-> out, ids |-> ids]
    ELSE LET id == candidates[i].transaction.id
         IN  IF id \notin ids
             THEN TakeFrom(candidates, count, i + 1, Append(out, candidates[i]), ids \cup {id})
             ELSE TakeFrom(candidates, count, i + 1, out, ids)

\* A take_unique that forgets to consult selected_ids
RECURSIVE TakeFromNoCheck(_, _, _, _, _)
TakeFromNoCheck(candidates, count, i, out, ids) ==
    IF i > Len(candidates) \/ Len(out) >= count THEN [out |-> out, ids |-> ids]
    ELSE TakeFromNoCheck(candidates, count, i + 1, Append(out, candidates[i]),
                         ids \cup {candidates[i].transaction.id})

take_unique_unchecked(candidates, count, ids) == TakeFromNoCheck(candidates, count, 1, <<>>, ids)

take_unique(candidates, count, ids) == TakeFrom(candidates, count, 1, <<>>, ids)

\* SelectedTransactions::empty
SelectedEmpty ==
    [high_price |-> <<>>, low_price |-> <<>>, avg_price |-> <<>>, oldest |-> <<>>,
     avg_point_price |-> 0, total_selected |-> 0]

\* TransactionSelector::select_transactions
select_transactions(mp, cfg) ==
    IF mp = <<>> THEN SelectedEmpty
    ELSE
    LET tx_with_meta == [i \in 1..Len(mp) |-> from_transaction(mp[i])]
        total_count == Min(cfg.max_transactions_per_block, Len(tx_with_meta))
        high_price_count == CeilFrac(total_count, 20, 100)
        low_price_count  == CeilFrac(total_count, 20, 100)
        avg_price_count  == CeilFrac(total_count, 50, 100)
        oldest_count     == CeilFrac(total_count, 10, 100)
        avg_point_price  == SumPrices(tx_with_meta) \div Len(tx_with_meta)
        high == take_unique(sort_by("high", avg_point_price, tx_with_meta),
                            high_price_count, {})
        low  == take_unique(sort_by("low", avg_point_price, tx_with_meta),
                            low_price_count, high.ids)
        avg  == take_unique(sort_by("avg", avg_point_price, tx_with_meta),
                            avg_price_count, low.ids)
        old  == take_unique(sort_by("old", avg_point_price, tx_with_meta),
                            oldest_count, avg.ids)
    IN  [high_price |-> high.out, low_price |-> low.out,
         avg_price |-> avg.out, oldest |-> old.out,
         avg_point_price |-> avg_point_price,
         total_selected |-> Len(high.out) + Len(low.out) + Len(avg.out) + Len(old.out)]

\* A flat list that begins with the low-price bucket
all_transactions_low_first(sel) ==
    sel.low_price \o sel.high_price \o sel.avg_price \o sel.oldest

\* SelectedTransactions::all_transactions
all_transactions(sel) == sel.high_price \o sel.low_price \o sel.avg_price \o sel.oldest

RECURSIVE GCD(_, _)
GCD(a, b) == IF b = 0 THEN a ELSE GCD(b, a % b)

\* An f64 that the code computes as a quotient, kept as the exact fraction
\* num / den in lowest terms (den > 0); the rounding of the f64 operations
\* is left out.
Frac(num, den) == [num |-> num \div GCD(num, den), den |-> den \div GCD(num, den)]

RECURSIVE SumData(_)
SumData(s) == IF s = <<>> THEN 0 ELSE Head(s).point_data + SumData(Tail(s))

\* prices.sort() on the point prices of the transactions
RECURSIVE InsertPrice(_, _)
InsertPrice(x, s) ==
    IF s = <<>> THEN <<x>>
    ELSE IF x < Head(s) THEN <<x>> \o s
    ELSE <<Head(s)>> \o InsertPrice(x, Tail(s))

RECURSIVE SortedPrices(_)
SortedPrices(txs) ==
    IF txs = <<>> THEN <<>>
    ELSE InsertPrice(Head(txs).point_price, SortedPrices(Tail(txs)))

\* A price stability that is the deviation itself:
\* min(diff / max_expected_diff, 1.0) * 100.0
calculate_price_deviation(transactions) ==
    IF transactions = <<>> THEN Frac(0, 1)
    ELSE
    LET prices == SortedPrices(transactions)
        n == Len(prices)
        median == IF n % 2 = 0
                  THEN (prices[n \div 2] + prices[n \div 2 + 1]) \div 2
                  ELSE prices[n \div 2 + 1]
        avg == SumPrices(transactions) \div n
        diff == Abs(avg - median)
        max_expected_diff == Max(avg, 1)
    IN  Frac(100 * Min(diff, max_expected_diff), max_expected_diff)

\* TransactionSelector::calculate_price_stability:
\* (1.0 - min(diff / max_expected_diff, 1.0)) * 100.0
calculate_price_stability(transactions) ==
    IF transactions = <<>> THEN Frac(0, 1)
    ELSE
    LET prices == SortedPrices(transactions)
        n == Len(prices)
        median == IF n % 2 = 0
                  THEN (prices[n \div 2] + prices[n \div 2 + 1]) \div 2
                  ELSE prices[n \div 2 + 1]
        avg == SumPrices(transactions) \div n
        diff == Abs(avg - median)
        max_expected_diff == Max(avg, 1)
    IN  Frac(100 * (max_expected_diff - Min(diff, max_expected_diff)), max_expected_diff)

\* price_stability / 100.0
Hundredth(x) == Frac(x.num, 100 * x.den)

\* f64 addition, multiplication by an integer and division by an integer
FracAdd(a, b) ==
    LET l == a.den * (b.den \div GCD(a.den, b.den))
    IN  Frac(a.num * (l \div a.den) + b.num * (l \div b.den), l)
FracTimes(a, n) == Frac(a.num * n, a.den)
FracDiv(a, n) == Frac(a.num, a.den * n)

\* An efficiency record with a full score
BlockEfficiencyFull ==
    [total_point_data |-> 0, total_point_price |-> 0, avg_point_price |-> 0,
     fill_percentage |-> Frac(1, 1), price_stability |-> Frac(100, 1),
     efficiency_score |-> Frac(100, 1), transaction_count |-> 0]

\* BlockEfficiency::default
BlockEfficiencyDefault ==
    [total_point_data |-> 0, total_point_price |-> 0, avg_point_price |-> 0,
     fill_percentage |-> Frac(0, 1), price_stability |-> Frac(0, 1),
     efficiency_score |-> Frac(0, 1), transaction_count |-> 0]

\* A calculate_block_efficiency whose fill percentage is not capped at 1.0
calculate_block_efficiency_uncapped(sel, cfg) ==
    LET all_tx == all_transactions(sel)
    IN  IF all_tx = <<>> THEN BlockEfficiencyDefault
        ELSE
        LET total_point_data == SumData(all_tx)
            total_point_price == SumPrices(all_tx)
            fill_percentage == Frac(total_point_data, cfg.target_block_size)
            price_stability == calculate_price_stability(all_tx)
        IN  [total_point_data |-> total_point_data,
             total_point_price |-> total_point_price,
             avg_point_price |-> total_point_price \div Len(all_tx),
             fill_percentage |-> fill_percentage,
             price_stability |-> price_stability,
             efficiency_score |->
                 FracAdd(FracTimes(fill_percentage, 40),
                         FracTimes(Hundredth(price_stability), 60)),
             transaction_count |-> Len(all_tx)]

\* TransactionSelector::calculate_block_efficiency:
\* efficiency_score = fill_percentage * 40.0 + (price_stability / 100.0) * 60.0
calculate_block_efficiency(sel, cfg) ==
    LET all_tx == all_transactions(sel)
    IN  IF all_tx = <<>> THEN BlockEfficiencyDefault
        ELSE
        LET total_point_data == SumData(all_tx)
            total_point_price == SumPrices(all_tx)
            fill_percentage ==
                Frac(Min(total_point_data, cfg.target_block_size), cfg.target_block_size)
            price_stability == calculate_price_stability(all_tx)
        IN  [total_point_data |-> total_point_data,
             total_point_price |-> total_point_price,
             avg_point_price |-> total_point_price \div Len(all_tx),
             fill_percentage |-> fill_percentage,
             price_stability |-> price_stability,
             efficiency_score |->
                 FracAdd(FracTimes(fill_percentage, 40),
                         FracTimes(Hundredth(price_stability), 60)),
             transaction_count |-> Len(all_tx)]

\* The configurations explored (TransactionSelectorConfig)
ConfigSpace ==
    [max_transactions_per_block : 0..MaxBlockTx,
     target_block_size : {100},
     total_points_spent : {0},
     min_transaction_fee : {1, 2}]

SelInit ==
    /\ mempool \in SeqUpTo(TxPool, MaxMempool)
    /\ config \in ConfigSpace
    /\ selected = None
    /\ efficiency = None

SelIdle ==
    /\ mempool = <<>>
    /\ config = [max_transactions_per_block |-> 0, target_block_size |-> 100,
                 total_points_spent |-> 0, min_transaction_fee |-> 1]
    /\ selected = None
    /\ efficiency = None

\* A call of select_transactions on the snapshot
SelectTransactions ==
    /\ selected = None
    /\ selected' = Some(select_transactions(mempool, config))
    /\ UNCHANGED <<mempool, config, efficiency>>
    /\ UNCHANGED notSel

\* A call of calculate_block_efficiency on the selection returned
CalculateBlockEfficiency ==
    /\ selected # None
    /\ efficiency = None
    /\ efficiency' = Some(calculate_block_efficiency(selected[1], config))
    /\ UNCHANGED <<mempool, config, selected>>
    /\ UNCHANGED notSel

SelNext == SelectTransactions \/ CalculateBlockEfficiency

(***************************************************************************)
(* CoordinatorNode (src/src/node/node_types.rs)                            *)
(***************************************************************************)
MaxAddVotes == 2         \* add_vote calls in one behaviour
MaxRounds == 2           \* voting rounds started in one behaviour

\* The committee the votes come from, and the block hashes in play
Validators == {"v1", "v2", "v3"}
BlockHashes == {"H1", "H2"}

\* The proposal lists (by block hash) and mempools start_voting_round is given
ProposalLists == {<<"H1">>, <<"H1", "H2">>}
RoundMempools == {<<Tx("a", 0, 50, 1), Tx("c", 2000000, 50, 1)>>}

\* A threshold of two thirds of the committee, without the extra member
quorum_threshold_two_thirds(committee_size) == (committee_size * 2) \div 3

\* ConsensusConfig::quorum_threshold (src/src/consensus/v1/types.rs)
quorum_threshold(committee_size) == (committee_size * 2) \div 3 + 1

\* A call of quorum_threshold: the committee sizes it is called with run
\* from 1 to MaxCommittee
MaxCommittee == 100

QuorumIdle ==
    /\ q_committee_size = 1
    /\ quorum = None

QuorumInit ==
    /\ q_committee_size \in 1..MaxCommittee
    /\ quorum = None

QuorumThreshold ==
    /\ quorum = None
    /\ quorum' = Some(quorum_threshold(q_committee_size))
    /\ UNCHANGED q_committee_size
    /\ UNCHANGED notQuorum

QuorumNext == QuorumThreshold

\* struct Vote; the signature and timestamp are carried along and never read
Vote(validator_id, block_hash, approve) ==
    [validator_id |-> validator_id, block_hash |-> block_hash, approve |-> approve]

\* HashMap<K, V> as a set of entries with at most one entry per key
MapEntry(k, v) == [key |-> k, value |-> v]
MapKeys(m) == {e.key : e \in m}
MapGet(m, k) == (CHOOSE e \in m : e.key = k).value

\* An insert that keeps the entry already stored under the key beside the new one
HashMapInsertKeepOld(m, k, v) == m \cup {MapEntry(k, v)}

\* HashMap::insert: the value of an existing key is replaced
HashMapInsert(m, k, v) == {e \in m : e.key # k} \cup {MapEntry(k, v)}

\* HashMap::entry(k).or_insert(v): the first value stored under a key stays
MapInsertIfAbsent(m, k, v) == IF k \in MapKeys(m) THEN m ELSE m \cup {MapEntry(k, v)}

\* SelectedTransactions::into_transactions
into_transactions(sel) ==
    [i \in 1..Len(all_transactions(sel)) |-> all_transactions(sel)[i].transaction]

\* The default configuration CoordinatorNode::new builds its selector with
DefaultSelectorConfig ==
    [max_transactions_per_block |-> 1000, target_block_size |-> 1000000,
     total_points_spent |-> 0, min_transaction_fee |-> 1]

CoordIdle ==
    /\ current_round = None
    /\ completed_rounds = <<>>
    /\ voting_result = None
    /\ first_vote = {}
    /\ add_calls = 0

\* CoordinatorNode::new
CoordInit == CoordIdle

\* CoordinatorNode::start_voting_round
start_voting_round(proposals, mp) ==
    /\ Len(completed_rounds) + (IF current_round = None THEN 0 ELSE 1) < MaxRounds
    /\ current_round' =
          Some([round_id |-> Len(completed_rounds),
                proposals |-> proposals,
                reference_block |-> into_transactions(select_transactions(mp, DefaultSelectorConfig)),
                votes |-> {},
                ended |-> FALSE,
                winner |-> None])
    /\ first_vote' = {}
    /\ UNCHANGED <<completed_rounds, voting_result, add_calls>>
    /\ UNCHANGED notCoord

\* CoordinatorNode::add_vote
add_vote(vote) ==
    /\ current_round # None
    /\ add_calls < MaxAddVotes
    /\ current_round' =
          Some([current_round[1] EXCEPT !.votes = HashMapInsert(@, vote.validator_id, vote)])
    /\ first_vote' = MapInsertIfAbsent(first_vote, vote.validator_id, vote)
    /\ add_calls' = add_calls + 1
    /\ UNCHANGED <<completed_rounds, voting_result>>
    /\ UNCHANGED notCoord

\* vote_counts of end_voting_round: the approving votes per block hash
ApprovingVotes(round, hash) ==
    {e \in round.votes : e.value.approve /\ e.value.block_hash = hash}

vote_counts(round) ==
    {MapEntry(h, Cardinality(ApprovingVotes(round, h))) :
        h \in {e.value.block_hash : e \in {x \in round.votes : x.value.approve}}}

\* vote_counts.iter().max_by_key(count): an entry with the largest count; the
\* HashMap's iteration order decides among equal counts, so any of them may win.
WinnerChoices(round) ==
    IF vote_counts(round) = {} THEN {None}
    ELSE {Some(e.key) : e \in {x \in vote_counts(round) :
                                  \A y \in vote_counts(round) : y.value <= x.value}}

RECURSIVE SumCounts(_)
SumCounts(m) ==
    IF m = {} THEN 0
    ELSE LET e == CHOOSE x \in m : TRUE IN e.value + SumCounts(m \ {e})

\* An end_voting_round whose result numbers the rounds from one
end_voting_round_counting_from_one ==
    /\ current_round # None
    /\ \E winner \in WinnerChoices(current_round[1]) :
          /\ completed_rounds' =
                Append(completed_rounds,
                       [current_round[1] EXCEPT !.ended = TRUE, !.winner = winner])
          /\ voting_result' =
                Some([round_id |-> Len(completed_rounds'),
                      winner |-> winner,
                      total_votes |-> SumCounts(vote_counts(current_round[1]))])
    /\ current_round' = None
    /\ UNCHANGED <<first_vote, add_calls>>
    /\ UNCHANGED notCoord

\* CoordinatorNode::end_voting_round
end_voting_round ==
    /\ current_round # None
    /\ \E winner \in WinnerChoices(current_round[1]) :
          /\ completed_rounds' =
                Append(completed_rounds,
                       [current_round[1] EXCEPT !.ended = TRUE, !.winner = winner])
          /\ voting_result' =
                Some([round_id |-> Len(completed_rounds') - 1,
                      winner |-> winner,
                      total_votes |-> SumCounts(vote_counts(current_round[1]))])
    /\ current_round' = None
    /\ UNCHANGED <<first_vote, add_calls>>
    /\ UNCHANGED notCoord

CoordNext ==
    \/ \E p \in ProposalLists, mp \in RoundMempools : start_voting_round(p, mp)
    \/ \E v \in Validators, h \in BlockHashes, a \in BOOLEAN : add_vote(Vote(v, h, a))
    \/ end_voting_round

(***************************************************************************)
(* VotingSystem (src/src/consensus/voting.rs).  Each call is one step.     *)
(***************************************************************************)
MaxTime == 3             \* the clock runs from 0 to MaxTime
VotingWindow == 2        \* VotingConfig.voting_window of the modelled instance
MinVoters == 3           \* VotingConfig::default().min_voters

Scores == {40, 50, 60}

\* consensus::vote::Vote::new(block_hash, validator_id, score)
ScoredVote(block_hash, validator_id, score) ==
    [block_hash |-> block_hash, validator_id |-> validator_id, score |-> score]

\* Result<T, E>: the value of an Ok in a one-element tuple, the message of an Err
Ok(v) == [ok |-> TRUE, value |-> <<v>>, error |-> ""]
Err(e) == [ok |-> FALSE, value |-> <<>>, error |-> e]
NoCall == [ok |-> TRUE, value |-> <<>>, error |-> "no call"]

\* A call of the VotingSystem: its arguments, the time it reads and the
\* round and votes it finds
VSCall(op, validator_id, block_hash, score) ==
    [op |-> op, validator_id |-> validator_id, block_hash |-> block_hash,
     score |-> score, at |-> now, round_before |-> vs_round, votes_before |-> vs_votes]

VSIdle ==
    /\ vs_round = None
    /\ vs_votes = {}
    /\ vs_first = {}
    /\ vs_out = NoCall
    /\ vs_call = [op |-> "new", validator_id |-> "", block_hash |-> "", score |-> 0,
                  at |-> 0, round_before |-> None, votes_before |-> {}]
    /\ now = 0

\* VotingSystem::new
VSInit == VSIdle

\* SystemTime::now() advancing between calls
Tick ==
    /\ now < MaxTime
    /\ now' = now + 1
    /\ UNCHANGED <<vs_round, vs_votes, vs_first, vs_out, vs_call>>
    /\ UNCHANGED notVS

\* A start_voting_round that keeps the votes of the round before
VS_start_voting_round_keeping_votes(block_hash) ==
    /\ UNCHANGED notVS
    /\ vs_call' = VSCall("start_voting_round", "", block_hash, 0)
    /\ IF vs_round # None
       THEN /\ vs_out' = Err("Voting round already in progress")
            /\ UNCHANGED <<vs_round, vs_votes, vs_first, now>>
       ELSE /\ vs_votes' = vs_votes
            /\ vs_first' = {}
            /\ vs_round' = Some([block_hash |-> block_hash, started_at |-> now,
                                 ends_at |-> now + VotingWindow])
            /\ vs_out' = Ok("started")
            /\ UNCHANGED now

\* VotingSystem::start_voting_round
VS_start_voting_round(block_hash) ==
    /\ UNCHANGED notVS
    /\ vs_call' = VSCall("start_voting_round", "", block_hash, 0)
    /\ IF vs_round # None
       THEN /\ vs_out' = Err("Voting round already in progress")
            /\ UNCHANGED <<vs_round, vs_votes, vs_first, now>>
       ELSE /\ vs_votes' = {}
            /\ vs_first' = {}
            /\ vs_round' = Some([block_hash |-> block_hash, started_at |-> now,
                                 ends_at |-> now + VotingWindow])
            /\ vs_out' = Ok("started")
            /\ UNCHANGED now

\* VotingSystem::has_voted
has_voted(validator_id) == validator_id \in MapKeys(vs_votes)

\* A cast_vote that closes the window one second late
VS_cast_vote_one_late(validator_id, block_hash, score) ==
    /\ UNCHANGED notVS
    /\ vs_call' = VSCall("cast_vote", validator_id, block_hash, score)
    /\ IF vs_round = None
       THEN /\ vs_out' = Err("No active voting round")
            /\ UNCHANGED <<vs_round, vs_votes, vs_first, now>>
       ELSE IF vs_round[1].block_hash # block_hash
       THEN /\ vs_out' = Err("Vote for wrong block hash")
            /\ UNCHANGED <<vs_round, vs_votes, vs_first, now>>
       ELSE IF now > vs_round[1].ends_at + 1
       THEN /\ vs_out' = Err("Voting window has closed")
            /\ UNCHANGED <<vs_round, vs_votes, vs_first, now>>
       ELSE /\ vs_votes' = HashMapInsert(vs_votes, validator_id,
                                         ScoredVote(block_hash, validator_id, score))
            /\ vs_first' = MapInsertIfAbsent(vs_first, validator_id, block_hash)
            /\ vs_out' = Ok("cast")
            /\ UNCHANGED <<vs_round, now>>

\* VotingSystem::cast_vote
VS_cast_vote(validator_id, block_hash, score) ==
    /\ UNCHANGED notVS
    /\ vs_call' = VSCall("cast_vote", validator_id, block_hash, score)
    /\ IF vs_round = None
       THEN /\ vs_out' = Err("No active voting round")
            /\ UNCHANGED <<vs_round, vs_votes, vs_first, now>>
       ELSE IF vs_round[1].block_hash # block_hash
       THEN /\ vs_out' = Err("Vote for wrong block hash")
            /\ UNCHANGED <<vs_round, vs_votes, vs_first, now>>
       ELSE IF now > vs_round[1].ends_at
       THEN /\ vs_out' = Err("Voting window has closed")
            /\ UNCHANGED <<vs_round, vs_votes, vs_first, now>>
       ELSE /\ vs_votes' = HashMapInsert(vs_votes, validator_id,
                                         ScoredVote(block_hash, validator_id, score))
            /\ vs_first' = MapInsertIfAbsent(vs_first, validator_id, block_hash)
            /\ vs_out' = Ok("cast")
            /\ UNCHANGED <<vs_round, now>>

RECURSIVE SumScores(_)
SumScores(m) ==
    IF m = {} THEN 0
    ELSE LET e == CHOOSE x \in m : TRUE IN e.value.score + SumScores(m \ {e})

\* An end_voting_round that checks the participation before it takes the
\* round, and so keeps the round when too few have voted
VS_end_voting_round_checking_first ==
    /\ UNCHANGED notVS
    /\ vs_call' = VSCall("end_voting_round", "", "", 0)
    /\ IF vs_round = None
       THEN /\ vs_out' = Err("No active voting round")
            /\ UNCHANGED <<vs_round, vs_votes, vs_first, now>>
       ELSE IF Cardinality(vs_votes) < MinVoters
       THEN /\ vs_out' = Err("InsufficientParticipation")
            /\ UNCHANGED <<vs_round, vs_votes, vs_first, now>>
       ELSE /\ vs_round' = None
            /\ vs_out' =
                  Ok([block_hash |-> vs_round[1].block_hash,
                      votes |-> vs_votes,
                      approved |-> SumScores(vs_votes) > 50 * Cardinality(vs_votes)])
            /\ UNCHANGED <<vs_votes, vs_first, now>>

\* An end_voting_round that approves a mean score of exactly 50
VS_end_voting_round_from_50 ==
    /\ UNCHANGED notVS
    /\ vs_call' = VSCall("end_voting_round", "", "", 0)
    /\ IF vs_round = None
       THEN /\ vs_out' = Err("No active voting round")
            /\ UNCHANGED <<vs_round, vs_votes, vs_first, now>>
       ELSE /\ vs_round' = None
            /\ vs_out' =
                  IF Cardinality(vs_votes) < MinVoters
                  THEN Err("InsufficientParticipation")
                  ELSE Ok([block_hash |-> vs_round[1].block_hash,
                           votes |-> vs_votes,
                           approved |-> SumScores(vs_votes) >= 50 * Cardinality(vs_votes)])
            /\ UNCHANGED <<vs_votes, vs_first, now>>

\* VotingSystem::end_voting_round; avg_score > 50.0 is total_score > 50 * vote_count
VS_end_voting_round ==
    /\ UNCHANGED notVS
    /\ vs_call' = VSCall("end_voting_round", "", "", 0)
    /\ IF vs_round = None
       THEN /\ vs_out' = Err("No active voting round")
            /\ UNCHANGED <<vs_round, vs_votes, vs_first, now>>
       ELSE /\ vs_round' = None
            /\ vs_out' =
                  IF Cardinality(vs_votes) < MinVoters
                  THEN Err("InsufficientParticipation")
                  ELSE Ok([block_hash |-> vs_round[1].block_hash,
                           votes |-> vs_votes,
                           approved |-> SumScores(vs_votes) > 50 * Cardinality(vs_votes)])
            /\ UNCHANGED <<vs_votes, vs_first, now>>

VSNext ==
    \/ Tick
    \/ \E h \in BlockHashes : VS_start_voting_round(h)
    \/ \E v \in Validators, h \in BlockHashes, sc \in Scores : VS_cast_vote(v, h, sc)
    \/ VS_end_voting_round

(***************************************************************************)
(* The VotingSystem called by concurrent tasks.  The calls take &self and  *)
(* guard `votes` and `current_round` by one RwLock each; a task holds a    *)
(* lock for one statement and another task may run between two lock        *)
(* acquisitions.  Each step below is the code from one lock acquisition up *)
(* to the next.                                                            *)
(***************************************************************************)
MaxCalls == 2            \* calls a task makes in one behaviour

Tasks == {"t1", "t2"}

\* The validator a task votes as, and the score it gives
ValidatorOf(t) == IF t = "t1" THEN "v1" ELSE "v2"
TaskScore == 60

\* A task between calls, before its first
TaskNew ==
    [pc |-> "idle", op |-> "none", block_hash |-> "", round |-> None, calls |-> 0,
     out |-> NoCall, replaced |-> FALSE]

TasksIdle == tasks = [t \in Tasks |-> TaskNew]

\* Task t enters a call
Entering(t, op, block_hash) ==
    [tasks[t] EXCEPT !.op = op, !.block_hash = block_hash, !.calls = @ + 1,
                     !.round = None, !.replaced = FALSE]

\* start_voting_round up to drop(current): the check under the read lock
start_voting_round_check(t, block_hash) ==
    /\ tasks[t].pc = "idle"
    /\ tasks[t].calls < MaxCalls
    /\ tasks' = [tasks EXCEPT ![t] =
          IF vs_round # None
          THEN [Entering(t, "start_voting_round", block_hash) EXCEPT
                   !.out = Err("Voting round already in progress")]
          ELSE [Entering(t, "start_voting_round", block_hash) EXCEPT !.pc = "clear_votes"]]
    /\ UNCHANGED <<vs_round, vs_votes, vs_first, now>>
    /\ UNCHANGED notTasks

\* self.votes.write().await.clear()
start_voting_round_clear(t) ==
    /\ tasks[t].pc = "clear_votes"
    /\ vs_votes' = {}
    /\ vs_first' = {}
    /\ tasks' = [tasks EXCEPT ![t].pc = "set_round"]
    /\ UNCHANGED <<vs_round, now>>
    /\ UNCHANGED notTasks

\* *self.current_round.write().await = Some(round); Ok(())
start_voting_round_set(t) ==
    /\ tasks[t].pc = "set_round"
    /\ vs_round' = Some([block_hash |-> tasks[t].block_hash, started_at |-> now,
                         ends_at |-> now + VotingWindow])
    /\ tasks' = [tasks EXCEPT ![t].pc = "idle", ![t].out = Ok("started"),
                              ![t].replaced = (vs_round # None)]
    /\ UNCHANGED <<vs_votes, vs_first, now>>
    /\ UNCHANGED notTasks

\* cast_vote up to drop(round): the checks under the read lock
cast_vote_check(t, block_hash) ==
    /\ tasks[t].pc = "idle"
    /\ tasks[t].calls < MaxCalls
    /\ tasks' = [tasks EXCEPT ![t] =
          IF vs_round = None
          THEN [Entering(t, "cast_vote", block_hash) EXCEPT
                   !.out = Err("No active voting round")]
          ELSE IF vs_round[1].block_hash # block_hash
          THEN [Entering(t, "cast_vote", block_hash) EXCEPT
                   !.out = Err("Vote for wrong block hash")]
          ELSE IF now > vs_round[1].ends_at
          THEN [Entering(t, "cast_vote", block_hash) EXCEPT
                   !.out = Err("Voting window has closed")]
          ELSE [Entering(t, "cast_vote", block_hash) EXCEPT !.pc = "insert_vote"]]
    /\ UNCHANGED <<vs_round, vs_votes, vs_first, now>>
    /\ UNCHANGED notTasks

\* self.votes.write().await.insert(validator_id, vote); Ok(())
cast_vote_insert(t) ==
    /\ tasks[t].pc = "insert_vote"
    /\ vs_votes' = HashMapInsert(vs_votes, ValidatorOf(t),
                        ScoredVote(tasks[t].block_hash, ValidatorOf(t), TaskScore))
    /\ vs_first' = MapInsertIfAbsent(vs_first, ValidatorOf(t), tasks[t].block_hash)
    /\ tasks' = [tasks EXCEPT ![t].pc = "idle", ![t].out = Ok("cast")]
    /\ UNCHANGED <<vs_round, now>>
    /\ UNCHANGED notTasks

\* self.current_round.write().await.take().ok_or_else(..)?
end_voting_round_take(t) ==
    /\ tasks[t].pc = "idle"
    /\ tasks[t].calls < MaxCalls
    /\ IF vs_round = None
       THEN /\ tasks' = [tasks EXCEPT ![t] =
                  [Entering(t, "end_voting_round", "") EXCEPT
                      !.out = Err("No active voting round")]]
            /\ UNCHANGED vs_round
       ELSE /\ tasks' = [tasks EXCEPT ![t] =
                  [Entering(t, "end_voting_round", "") EXCEPT
                      !.pc = "read_votes", !.round = vs_round]]
            /\ vs_round' = None
    /\ UNCHANGED <<vs_votes, vs_first, now>>
    /\ UNCHANGED notTasks

\* end_voting_round from self.votes.read().await to its return
end_voting_round_tally(t) ==
    /\ tasks[t].pc = "read_votes"
    /\ tasks' = [tasks EXCEPT ![t].pc = "idle", ![t].out =
          IF Cardinality(vs_votes) < MinVoters
          THEN Err("InsufficientParticipation")
          ELSE Ok([block_hash |-> tasks[t].round[1].block_hash,
                   votes |-> vs_votes,
                   approved |-> SumScores(vs_votes) > 50 * Cardinality(vs_votes)])]
    /\ UNCHANGED <<vs_round, vs_votes, vs_first, now>>
    /\ UNCHANGED notTasks

TasksNext ==
    \/ Tick
    \/ \E t \in Tasks, h \in BlockHashes : start_voting_round_check(t, h)
    \/ \E t \in Tasks : start_voting_round_clear(t)
    \/ \E t \in Tasks : start_voting_round_set(t)
    \/ \E t \in Tasks, h \in BlockHashes : cast_vote_check(t, h)
    \/ \E t \in Tasks : cast_vote_insert(t)
    \/ \E t \in Tasks : end_voting_round_take(t)
    \/ \E t \in Tasks : end_voting_round_tally(t)

(***************************************************************************)
(* BlockBuilderNode (src/src/node/node_types.rs)                           *)
(***************************************************************************)
MaxAdded == 3            \* add_to_mempool calls made on a builder

PreviousHashes == {"P0"}

\* Vec::contains on the transactions of a block
Contains(transactions, tx) == \E i \in 1..Len(transactions) : transactions[i] = tx

\* A retain that keeps every transaction of the mempool
retain_everything(mp, transactions) == mp

\* self.mempool.retain(|tx| !block.transactions.contains(tx))
retain_unselected(mp, transactions) ==
    SelectSeq(mp, LAMBDA tx : ~Contains(transactions, tx))

\* BlockBuilderStats::default
BlockBuilderStatsDefault ==
    [blocks_built |-> 0, blocks_accepted |-> 0, blocks_rejected |-> 0,
     total_efficiency |-> Frac(0, 1), avg_efficiency |-> Frac(0, 1)]

\* The BlockProposal build_block returns; blocks_built, the vector the
\* header index is read from, is never pushed to and stays empty
BlockProposal(previous_hash, transactions, efficiency_score) ==
    [builder_id |-> "builder",
     block |-> [header |-> [index |-> 0, timestamp |-> now,
                            previous_hash |-> previous_hash, ai_threshold |-> 5],
                transactions |-> transactions,
                hash |-> ""],
     efficiency |-> efficiency_score,
     timestamp |-> now]

BuilderIdle ==
    /\ bb_mempool = <<>>
    /\ bb_stats = BlockBuilderStatsDefault
    /\ bb_out = NoCall
    /\ bb_built = <<>>
    /\ bb_added = <<>>

\* BlockBuilderNode::new
BuilderInit == BuilderIdle

\* BlockBuilderNode::add_to_mempool
add_to_mempool(tx) ==
    /\ Len(bb_added) < MaxAdded
    /\ bb_mempool' = Append(bb_mempool, tx)
    /\ bb_added' = Append(bb_added, tx)
    /\ bb_out' = NoCall
    /\ UNCHANGED <<bb_stats, bb_built>>
    /\ UNCHANGED notBuilder

\* BlockBuilderNode::build_block
build_block(previous_hash) ==
    /\ UNCHANGED notBuilder
    /\ IF bb_mempool = <<>>
       THEN /\ bb_out' = Err("Mempool is empty")
            /\ UNCHANGED <<bb_mempool, bb_stats, bb_built, bb_added>>
       ELSE LET sel == select_transactions(bb_mempool, DefaultSelectorConfig)
                eff == calculate_block_efficiency(sel, DefaultSelectorConfig)
                transactions == into_transactions(sel)
                total == FracAdd(bb_stats.total_efficiency, eff.efficiency_score)
            IN  /\ bb_mempool' = retain_unselected(bb_mempool, transactions)
                /\ bb_stats' = [bb_stats EXCEPT
                                  !.blocks_built = @ + 1,
                                  !.total_efficiency = total,
                                  !.avg_efficiency = FracDiv(total, bb_stats.blocks_built + 1)]
                /\ bb_out' = Ok(BlockProposal(previous_hash, transactions,
                                              eff.efficiency_score))
                /\ bb_built' = Append(bb_built, transactions)
                /\ UNCHANGED bb_added

BuilderNext ==
    \/ \E tx \in TxPool : add_to_mempool(tx)
    \/ \E ph \in PreviousHashes : build_block(ph)

(***************************************************************************)
(* RoundState (src/src/consensus/v1/types.rs)                              *)
(***************************************************************************)
MaxHeight == 3           \* heights 0..MaxHeight
MaxRound == 3            \* rounds 0..MaxRound

RoundSteps == {"ProposeWindow", "Voting", "Finalize", "Committed"}

\* RoundState::new
RoundState_new(height) ==
    [height |-> height, round |-> 0, step |-> "ProposeWindow",
     reference_efficiency |-> 0, proposals_received |-> 0, votes_received |-> 0,
     winner_hash |-> None]

\* The values the public fields of a RoundState take between calls
RoundStates ==
    [height : 0..MaxHeight, round : 0..MaxRound, step : RoundSteps,
     reference_efficiency : {0, 5000}, proposals_received : 0..1,
     votes_received : 0..1, winner_hash : {None, Some("H1")}]

\* The record of the last call on the RoundState: the method, its argument
\* (0 when it has none) and the state the call ran on
RoundCall(op, arg, before) == [op |-> op, arg |-> arg, before |-> before]

RoundIdle ==
    /\ rs = RoundState_new(0)
    /\ rs_call = RoundCall("new", 0, RoundState_new(0))

RoundInit ==
    /\ rs \in RoundStates
    /\ rs_call = RoundCall("none", 0, rs)

\* An advance_round that keeps the winner of the round it leaves
advance_round_keeping_winner ==
    /\ rs.round < MaxRound
    /\ rs' = [rs EXCEPT !.round = @ + 1, !.step = "ProposeWindow",
                        !.proposals_received = 0, !.votes_received = 0]
    /\ rs_call' = RoundCall("advance_round", 0, rs)
    /\ UNCHANGED notRound

\* RoundState::advance_round
advance_round ==
    /\ rs.round < MaxRound
    /\ rs' = [rs EXCEPT !.round = @ + 1, !.step = "ProposeWindow",
                        !.proposals_received = 0, !.votes_received = 0,
                        !.winner_hash = None]
    /\ rs_call' = RoundCall("advance_round", 0, rs)
    /\ UNCHANGED notRound

\* A new_height that keeps the reference efficiency of the height it leaves
new_height_keeping_reference(height) ==
    /\ rs' = [rs EXCEPT !.height = height, !.round = 0, !.step = "ProposeWindow",
                        !.proposals_received = 0,
                        !.votes_received = 0, !.winner_hash = None]
    /\ rs_call' = RoundCall("new_height", height, rs)
    /\ UNCHANGED notRound

\* RoundState::new_height
new_height(height) ==
    /\ rs' = [rs EXCEPT !.height = height, !.round = 0, !.step = "ProposeWindow",
                        !.reference_efficiency = 0, !.proposals_received = 0,
                        !.votes_received = 0, !.winner_hash = None]
    /\ rs_call' = RoundCall("new_height", height, rs)
    /\ UNCHANGED notRound

RoundNext ==
    \/ advance_round
    \/ \E h \in 0..MaxHeight : new_height(h)

(***************************************************************************)
(* MasterKey, ValidatorKey and KeyManager                                  *)
(* (src/src/crypto/delegated_keys.rs)                                      *)
(***************************************************************************)
MaxKeys == 2             \* validator keys a KeyManager derives

MasterPrivateKeys == {"m1", "m2"}
Nonces == {"n1", "n2"}
KeyOperations ==
    {"SendTransaction", "Vote", "ValidateColorMarker", "RevokeValidatorKey",
     "MigrateValidator"}

\* Key bytes are named by how they were made: `kind` is "master" (generated
\* bytes `seed`), "derived" (the HMAC of a master key over the derivation
\* input) or "zeroized"; the HMAC and the curve are taken to be injective.
KeyBytes(kind, seed, created_at, nonce) ==
    [kind |-> kind, seed |-> seed, created_at |-> created_at, nonce |-> nonce]

\* Private bytes after Zeroize::zeroize
Zeroized == KeyBytes("zeroized", "", 0, "")

\* The public key ECDSAKeys::from_private_key computes for a private key
PublicKeyOf(private_key) == [of |-> private_key]

\* The 32 bytes of the SHA3-256 digest of `data`, each named by its position
Sha3_256(data) == [i \in 1..32 |-> [digest_of |-> data, index |-> i - 1]]

\* hex::encode: two lowercase hex characters for every byte, the high
\* nibble first
HexEncode(bytes) ==
    [k \in 1..(2 * Len(bytes)) |->
        [nibble |-> IF k % 2 = 1 THEN "high" ELSE "low", of |-> bytes[(k + 1) \div 2]]]

\* MasterKey::derive_address: format!("0x{}", hex::encode(&hash[hash.len() - 20..]))
derive_address(public_key) ==
    LET hash == Sha3_256(public_key)
        address_bytes == SubSeq(hash, Len(hash) - 20 + 1, Len(hash))
    IN  <<"0", "x">> \o HexEncode(address_bytes)

\* MasterKey::from_private_key (generate is the same on a fresh private key)
MasterKey_from_private_key(private_key) ==
    [private_key |-> private_key,
     public_key |-> PublicKeyOf(private_key),
     address |-> derive_address(PublicKeyOf(private_key)),
     created_at |-> now]

\* A derivation that feeds the HMAC the time of the call in place of the
\* creation time of the master key
derive_validator_key_by_clock(master, nonce) ==
    LET validator_private_key ==
            KeyBytes("derived", master.private_key.seed, now, nonce)
    IN  [private_key |-> validator_private_key,
         public_key |-> PublicKeyOf(validator_private_key),
         master_address |-> master.address,
         nonce |-> nonce,
         created_at |-> now,
         revoked |-> FALSE]

\* MasterKey::derive_validator_key: HMAC-SHA3-256 keyed with the master
\* private key over "SELF_VALIDATOR_KEY_v1" || created_at || nonce
derive_validator_key(master, nonce) ==
    LET validator_private_key ==
            KeyBytes("derived", master.private_key.seed, master.created_at, nonce)
    IN  [private_key |-> validator_private_key,
         public_key |-> PublicKeyOf(validator_private_key),
         master_address |-> master.address,
         nonce |-> nonce,
         created_at |-> now,
         revoked |-> FALSE]

\* A can_perform that allows a live validator key every operation
can_perform_all(key, operation) == ~key.revoked

\* ValidatorKey::can_perform
can_perform(key, operation) ==
    IF key.revoked THEN FALSE
    ELSE IF operation \in {"Vote", "ValidateColorMarker"} THEN TRUE
    ELSE FALSE

\* A signature: who signed what
Signature(private_key, data) == [signer |-> private_key, data |-> data]

\* ValidatorKey::sign, as the set of results the call can return.  What
\* ECDSAKeys makes of zeroized private bytes is not decided here: both a
\* signature and an error are possible.
ValidatorKey_sign(key, data) ==
    IF key.revoked THEN {Err("Key is revoked")}
    ELSE IF key.private_key = Zeroized
    THEN {Ok(Signature(key.private_key, data)), Err("ECDSA")}
    ELSE {Ok(Signature(key.private_key, data))}

\* ValidatorKey::sign_vote
sign_vote(key, block_hash, vote) ==
    IF ~can_perform(key, "Vote") THEN {Err("Validator key is revoked")}
    ELSE ValidatorKey_sign(key, [domain |-> "VOTE", hash |-> block_hash,
                                 flag |-> vote, timestamp |-> now])

\* ValidatorKey::sign_color_validation
sign_color_validation(key, tx_hash, valid) ==
    IF ~can_perform(key, "ValidateColorMarker") THEN {Err("Validator key is revoked")}
    ELSE ValidatorKey_sign(key, [domain |-> "COLOR_VALIDATION", hash |-> tx_hash,
                                 flag |-> valid, timestamp |-> 0])

\* ValidatorKey::sign_transaction
sign_transaction(key, tx_data) ==
    {Err("Validator keys cannot sign transactions - use master key")}

\* A revoke that zeroizes the private bytes and forgets the flag
revoke_without_flag(key) == [key EXCEPT !.private_key = Zeroized]

\* ValidatorKey::revoke
revoke(key) == [key EXCEPT !.revoked = TRUE, !.private_key = Zeroized]

\* The record of the last call on a key: the method, the index of the key
\* in validator_keys (0 for a KeyManager call) and the result
KeyOut(op, i, result) == [op |-> op, index |-> i, result |-> result]

KeyIdle ==
    /\ master_key = None
    /\ validator_keys = <<>>
    /\ revoke_called = {}
    /\ derived_from = <<>>
    /\ key_out = KeyOut("new", 0, NoCall)

\* KeyManager::new
KeyInit == KeyIdle

\* KeyManager::generate_master_key / import_master_key
import_master_key(seed) ==
    /\ master_key' = Some(MasterKey_from_private_key(KeyBytes("master", seed, 0, "")))
    /\ key_out' = KeyOut("import_master_key", 0, Ok(master_key'[1].address))
    /\ UNCHANGED <<validator_keys, revoke_called, derived_from>>
    /\ UNCHANGED notKey

\* KeyManager::derive_validator
derive_validator(nonce) ==
    /\ UNCHANGED notKey
    /\ IF master_key = None
       THEN /\ key_out' = KeyOut("derive_validator", 0, Err("No master key"))
            /\ UNCHANGED <<master_key, validator_keys, revoke_called, derived_from>>
       ELSE /\ Len(validator_keys) < MaxKeys
            /\ validator_keys' =
                  Append(validator_keys, derive_validator_key(master_key[1], nonce))
            /\ derived_from' = Append(derived_from, master_key[1])
            /\ key_out' = KeyOut("derive_validator", 0,
                                 Ok(derive_validator_key(master_key[1], nonce).public_key))
            /\ UNCHANGED <<master_key, revoke_called>>

\* KeyManager::revoke_validator: the first key with that public key is revoked
revoke_validator(public_key) ==
    LET matching == {i \in 1..Len(validator_keys) : validator_keys[i].public_key = public_key}
    IN  /\ UNCHANGED notKey
        /\ IF matching = {}
           THEN /\ key_out' = KeyOut("revoke_validator", 0, Err("Validator key not found"))
                /\ UNCHANGED <<master_key, validator_keys, revoke_called, derived_from>>
           ELSE LET first == CHOOSE i \in matching : \A j \in matching : i <= j
                IN  /\ validator_keys' = [validator_keys EXCEPT ![first] = revoke(@)]
                    /\ revoke_called' = revoke_called \cup {first}
                    /\ key_out' = KeyOut("revoke_validator", 0, Ok("revoked"))
                    /\ UNCHANGED <<master_key, derived_from>>

\* A signing call on the i-th validator key; key_out records the call and its result
KeyCall(op, i, results) ==
    /\ \E r \in results : key_out' = KeyOut(op, i, r)
    /\ UNCHANGED <<master_key, validator_keys, revoke_called, derived_from>>
    /\ UNCHANGED notKey

call_sign_vote(i, block_hash, vote) ==
    KeyCall("sign_vote", i, sign_vote(validator_keys[i], block_hash, vote))

call_sign_color_validation(i, tx_hash, valid) ==
    KeyCall("sign_color_validation", i, sign_color_validation(validator_keys[i], tx_hash, valid))

call_sign_transaction(i, tx_data) ==
    KeyCall("sign_transaction", i, sign_transaction(validator_keys[i], tx_data))

\* The public keys revoke_validator is called with: those derived, and a stranger
KnownPublicKeys == {validator_keys[i].public_key : i \in 1..Len(validator_keys)}
StrangerPublicKey == PublicKeyOf(KeyBytes("master", "stranger", 0, ""))

\* SystemTime::now() advancing between calls on the key manager
MaxKeyTime == 1

KeyTick ==
    /\ now < MaxKeyTime
    /\ now' = now + 1
    /\ UNCHANGED keyVars
    /\ UNCHANGED notKeyNorClock

DeriveNext ==
    \/ KeyTick
    \/ \E k \in MasterPrivateKeys : import_master_key(k)
    \/ \E n \in Nonces : derive_validator(n)

\* MasterKey::create_revocation: the master key signs
\* "REVOKE_VALIDATOR" || validator_public_key || timestamp
RevocationMessage(validator_public_key, timestamp) ==
    [domain |-> "REVOKE_VALIDATOR", hash |-> validator_public_key,
     flag |-> TRUE, timestamp |-> timestamp]

create_revocation(master, validator_public_key) ==
    [master_address |-> master.address,
     validator_public_key |-> validator_public_key,
     timestamp |-> now,
     signature |-> Signature(master.private_key,
                             RevocationMessage(validator_public_key, now))]

\* Revocation::verify: the message is rebuilt and nothing is checked
Revocation_verify(rev, master_public_key) == Ok(TRUE)

\* ECDSA verification of a signature against a public key and a message
VerifySignature(signature, public_key, data) ==
    /\ PublicKeyOf(signature.signer) = public_key
    /\ signature.data = data

\* The master keys and validator public keys certificates are made of
RevMasters == {MasterKey_from_private_key(KeyBytes("master", k, 0, "")) : k \in MasterPrivateKeys}
RevValidatorKeys ==
    {PublicKeyOf(KeyBytes("derived", k, 0, "n1")) : k \in MasterPrivateKeys}

\* The record of the last verify call
VerifyOut(called, rev, master_public_key, result) ==
    [called |-> called, revocation |-> rev,
     master_public_key |-> master_public_key, result |-> result]

RevIdle ==
    /\ revocation = None
    /\ verify_out = VerifyOut(FALSE, None, PublicKeyOf(Zeroized), NoCall)

RevInit == RevIdle

\* A master key issues a certificate
CreateRevocation(master, validator_public_key) ==
    /\ revocation' = Some(create_revocation(master, validator_public_key))
    /\ UNCHANGED verify_out
    /\ UNCHANGED notRev

\* A certificate arrives whose fields an outsider filled in (Revocation is
\* Deserialize with public fields): the signature is by `signer` over a
\* certificate for `signed_key`, the fields name `master` and `claimed_key`
ReceiveRevocation(signer, signed_key, master, claimed_key) ==
    /\ signer # master \/ signed_key # claimed_key
    /\ revocation' = Some([create_revocation(signer, signed_key) EXCEPT
                              !.master_address = master.address,
                              !.validator_public_key = claimed_key])
    /\ UNCHANGED verify_out
    /\ UNCHANGED notRev

\* A call of Revocation::verify on the certificate at hand
VerifyRevocation(master_public_key) ==
    /\ revocation # None
    /\ verify_out' = VerifyOut(TRUE, revocation, master_public_key,
                               Revocation_verify(revocation[1], master_public_key))
    /\ UNCHANGED revocation
    /\ UNCHANGED notRev

RevNext ==
    \/ \E m \in RevMasters, vk \in RevValidatorKeys : CreateRevocation(m, vk)
    \/ \E s \in RevMasters, sk \in RevValidatorKeys, m \in RevMasters, vk \in RevValidatorKeys :
          ReceiveRevocation(s, sk, m, vk)
    \/ \E m \in RevMasters : VerifyRevocation(m.public_key)

KeyNext ==
    \/ \E k \in MasterPrivateKeys : import_master_key(k)
    \/ \E n \in Nonces : derive_validator(n)
    \/ \E pk \in KnownPublicKeys \cup {StrangerPublicKey} : revoke_validator(pk)
    \/ \E i \in 1..Len(validator_keys), h \in BlockHashes : call_sign_vote(i, h, TRUE)
    \/ \E i \in 1..Len(validator_keys) : call_sign_color_validation(i, "txhash", TRUE)
    \/ \E i \in 1..Len(validator_keys) : call_sign_transaction(i, "txdata")

(***************************************************************************)
(* u64 and i64 values at their full width                                  *)
(***************************************************************************)
Two63 == BigShl(BigFromInt(1), 63)
Two64 == BigShl(BigFromInt(1), 64)
U64Max == BigSub(Two64, BigFromInt(1))

\* A signed number: sign and magnitude, zero being non-negative
SInt(neg, mag) == [neg |-> neg /\ mag # BigZero, mag |-> mag]

SIntAdd(a, b) ==
    IF a.neg = b.neg THEN SInt(a.neg, BigAdd(a.mag, b.mag))
    ELSE IF BigLeq(b.mag, a.mag) THEN SInt(a.neg, BigSub(a.mag, b.mag))
    ELSE SInt(b.neg, BigSub(b.mag, a.mag))

SIntSub(a, b) == SIntAdd(a, SInt(~b.neg, b.mag))

\* x as i64 for a u64 x: the same 64 bits read in two's complement
AsI64(x) == IF BigLess(x, Two63) THEN SInt(FALSE, x) ELSE SInt(TRUE, BigSub(Two64, x))

InI64(x) == IF x.neg THEN BigLeq(x.mag, Two63) ELSE BigLess(x.mag, Two63)

\* The i64 with the same low 64 bits as x, for x within 2^64 of the i64 range
WrapI64(x) ==
    IF InI64(x) THEN x
    ELSE IF x.neg THEN SIntAdd(x, SInt(FALSE, Two64))
    ELSE SIntSub(x, SInt(FALSE, Two64))

\* The outcomes of an arithmetic operation: a value, or the panic of a
\* build with overflow checks
Value(v) == [panic |-> FALSE, value |-> <<v>>]
Panic == [panic |-> TRUE, value |-> <<>>]

\* a - b on i64: on overflow a build with overflow checks panics, a build
\* without them wraps
I64Sub(a, b) ==
    IF InI64(SIntSub(a, b)) THEN {Value(SIntSub(a, b))}
    ELSE {Panic, Value(WrapI64(SIntSub(a, b)))}

(***************************************************************************)
(* ValidatedProposal (src/src/blockchain/v1/proposal.rs)                   *)
(***************************************************************************)
\* The efficiencies ValidatedProposal::new is called with
EfficiencyValues ==
    { BigZero, BigFromInt(1), BigFromInt(4000), BigFromInt(5000), BigFromInt(6000),
      BigSub(Two63, BigFromInt(1)), Two63, BigAdd(Two63, BigFromInt(1)), U64Max }

\* ValidatedProposal::new, as the set of its outcomes
ValidatedProposal_new(proposal, verified_efficiency, reference_efficiency) ==
    {IF d.panic THEN Panic
     ELSE Value([proposal |-> proposal,
                 verified_efficiency |-> verified_efficiency,
                 beats_reference |-> BigLeq(reference_efficiency, verified_efficiency),
                 efficiency_delta |-> d.value[1]]) :
        d \in I64Sub(AsI64(verified_efficiency), AsI64(reference_efficiency))}

ProposalInit ==
    /\ call_args \in [verified_efficiency : EfficiencyValues,
                      reference_efficiency : EfficiencyValues]
    /\ call_out = None

\* A call of ValidatedProposal::new
NewValidatedProposal ==
    /\ call_out = None
    /\ \E r \in ValidatedProposal_new("proposal", call_args.verified_efficiency,
                                       call_args.reference_efficiency) :
          call_out' = Some(r)
    /\ UNCHANGED call_args
    /\ UNCHANGED notCall

ProposalNext == NewValidatedProposal

(***************************************************************************)
(* Wallet colors (src/src/consensus/validator.rs).  A string is the        *)
(* sequence of its characters.                                             *)
(***************************************************************************)
LowerHexDigits ==
    <<"0", "1", "2", "3", "4", "5", "6", "7", "8", "9", "a", "b", "c", "d", "e", "f">>
UpperHexDigits ==
    <<"0", "1", "2", "3", "4", "5", "6", "7", "8", "9", "A", "B", "C", "D", "E", "F">>

\* char::is_ascii_hexdigit
is_ascii_hexdigit(c) ==
    \E i \in 1..16 : c = LowerHexDigits[i] \/ c = UpperHexDigits[i]

\* char::to_digit(16) on a hex digit
HexVal(c) == (CHOOSE i \in 1..16 : c = LowerHexDigits[i] \/ c = UpperHexDigits[i]) - 1

\* The length of a character in UTF-8 bytes
Utf8Len(c) == IF c = "é" THEN 2 ELSE 1

\* str::len: the length in bytes
RECURSIVE StrLen(_)
StrLen(str) == IF str = <<>> THEN 0 ELSE Utf8Len(Head(str)) + StrLen(Tail(str))

\* Validator::is_valid_hex
is_valid_hex(color) ==
    /\ StrLen(color) = 6
    /\ \A i \in 1..Len(color) : is_ascii_hexdigit(color[i])

\* u32::from_str_radix(str, 16) on a string of hex digits
RECURSIVE FromHexDigits(_, _)
FromHexDigits(str, acc) ==
    IF str = <<>> THEN acc ELSE FromHexDigits(Tail(str), acc * 16 + HexVal(Head(str)))

from_str_radix(str) == FromHexDigits(str, 0)

\* format!("{:x}", n): the lowercase hex digits of n, at least one
RECURSIVE FormatHex(_)
FormatHex(n) ==
    IF n < 16 THEN <<LowerHexDigits[n + 1]>>
    ELSE Append(FormatHex(n \div 16), LowerHexDigits[(n % 16) + 1])

\* format!("{:06x}", n): padded with zeros on the left to 6 digits
FormatHex06(n) ==
    LET digits == FormatHex(n)
    IN  [i \in 1..(6 - Len(digits)) |-> "0"] \o digits

\* A calculate_new_color that does not reduce the sum
calculate_new_color_unreduced(current_color, hex_tx) ==
    IF ~is_valid_hex(current_color) THEN Err("Invalid current color format")
    ELSE IF ~is_valid_hex(hex_tx) THEN Err("Invalid hex transaction format")
    ELSE Ok(FormatHex06(from_str_radix(current_color) + from_str_radix(hex_tx)))

\* Validator::calculate_new_color
calculate_new_color(current_color, hex_tx) ==
    IF ~is_valid_hex(current_color) THEN Err("Invalid current color format")
    ELSE IF ~is_valid_hex(hex_tx) THEN Err("Invalid hex transaction format")
    ELSE Ok(FormatHex06((from_str_radix(current_color) + from_str_radix(hex_tx))
                            % 16777216))

\* The strings calculate_new_color is called with
ColorStrings ==
    { <<"0", "0", "0", "0", "0", "1">>, <<"0", "0", "0", "0", "0", "2">>,
      <<"f", "f", "f", "f", "f", "f">>, <<"F", "F", "F", "F", "F", "F">>,
      <<"8", "0", "0", "0", "0", "0">>, <<"a", "B", "c", "D", "e", "F">>,
      <<"0", "0", "0", "0", "0", "g">>, <<"0", "0", "0", "0", "1">>,
      <<"0", "0", "0", "0", "0", "0", "1">>, <<>>,
      <<"0", "0", "0", "0", "é">>, <<"+", "0", "0", "0", "0", "1">> }

ColorInit ==
    /\ call_args \in [current_color : ColorStrings, hex_tx : ColorStrings]
    /\ call_out = None

\* A call of calculate_new_color
CalculateNewColor ==
    /\ call_out = None
    /\ call_out' = Some(calculate_new_color(call_args.current_color, call_args.hex_tx))
    /\ UNCHANGED call_args
    /\ UNCHANGED notCall

ColorNext == CalculateNewColor

\* The wallets whose colors are asked for
Wallets == {"w1", "w2"}

\* A transaction as validate_transaction reads it: `hex_tx` stands for the
\* value of calculate_hex_transaction(tx), `valid` for that of tx.verify()
ColorTx(sender, hex_tx, valid) == [sender |-> sender, hex_tx |-> hex_tx, valid |-> valid]
ColorTxs == {ColorTx(w, FormatHex06(2), v) : w \in Wallets, v \in BOOLEAN}

\* Values rand::random::<u32>() returns
RandomU32 == {0, 16777214, 16777215}

\* Validator::generate_initial_color, as the set of colors a call can return
generate_initial_color == {FormatHex06(r % 16777215) : r \in RandomU32}

\* struct WalletColor
WalletColor(address, color, last_update) ==
    [address |-> address, color |-> color, last_update |-> last_update]

\* Validator::get_wallet_color, as the set of results a call can return: the
\* stored color, or for a wallet not in the map a color generated by this
\* call, which is returned and not stored
get_wallet_color(address) ==
    IF address \in MapKeys(wallet_colors)
    THEN {Ok(MapGet(wallet_colors, address).color)}
    ELSE {Ok(color) : color \in generate_initial_color}

\* Validator::validate_color_transition
validate_color_transition(current, new) == is_valid_hex(current) /\ is_valid_hex(new)

\* The record of the last call: the method, the wallet, the color the call
\* read for the wallet (None if it read none) and the result
WalletOut(op, address, color, result) ==
    [op |-> op, address |-> address, color |-> color, result |-> result]

\* One reading of a wallet's color: who read it and what was read
ColorRead(op, address, color) == [op |-> op, address |-> address, color |-> color]

WalletIdle ==
    /\ wallet_colors = {}
    /\ color_reads = {}
    /\ wallet_out = WalletOut("new", "", None, NoCall)

\* Validator::new
WalletInit == WalletIdle

\* A call of get_wallet_color
GetWalletColor(address) ==
    /\ \E r \in get_wallet_color(address) :
          /\ wallet_out' = WalletOut("get_wallet_color", address, Some(r.value[1]), r)
          /\ color_reads' =
                color_reads \cup {ColorRead("get_wallet_color", address, r.value[1])}
    /\ UNCHANGED wallet_colors
    /\ UNCHANGED notWallet

\* Validator::update_wallet_color
update_wallet_color(address, color) ==
    /\ wallet_colors' = HashMapInsert(wallet_colors, address, WalletColor(address, color, now))
    /\ color_reads' = {r \in color_reads : r.address # address}
    /\ wallet_out' = WalletOut("update_wallet_color", address, None, Ok(<<>>))
    /\ UNCHANGED notWallet

\* Validator::validate_transaction on a transaction the validation cache
\* holds no result for
validate_transaction(tx) ==
    /\ UNCHANGED wallet_colors
    /\ UNCHANGED notWallet
    /\ IF ~tx.valid
       THEN /\ wallet_out' = WalletOut("validate_transaction", tx.sender, None,
                                       Err("Invalid transaction structure"))
            /\ UNCHANGED color_reads
       ELSE \E r \in get_wallet_color(tx.sender) :
               LET sender_color == r.value[1]
                   new_color == calculate_new_color(sender_color, tx.hex_tx)
               IN  /\ color_reads' =
                         color_reads \cup {ColorRead("validate_transaction", tx.sender, sender_color)}
                   /\ wallet_out' =
                         WalletOut("validate_transaction", tx.sender, Some(sender_color),
                                   IF ~new_color.ok THEN Err(new_color.error)
                                   ELSE IF ~validate_color_transition(sender_color,
                                                                      new_color.value[1])
                                   THEN Err("InvalidColorTransition")
                                   ELSE Ok(<<>>))

WalletNext ==
    \/ \E w \in Wallets : GetWalletColor(w)
    \/ \E w \in Wallets, c \in generate_initial_color : update_wallet_color(w, c)
    \/ \E tx \in ColorTxs : validate_transaction(tx)

(***************************************************************************)
(* The point-to-coin ratio (src/src/consensus/transaction_selector.rs).    *)
(* total_points_spent is a u64 at its full width; the ratio, an f64, is    *)
(* the exact fraction (a division by 2.0 or 4.0 is exact in f64).          *)
(***************************************************************************)
POINT_TO_COIN_RATIO == Frac(1, 1000)
FIRST_HALVING_THRESHOLD == Dec(<<30, 0, 0, 0>>)
SECOND_HALVING_THRESHOLD == Dec(<<60, 0, 0, 0>>)

\* A get_point_to_coin_ratio that halves only above the thresholds
get_point_to_coin_ratio_above(total_points_spent) ==
    IF BigLess(SECOND_HALVING_THRESHOLD, total_points_spent)
    THEN FracDiv(POINT_TO_COIN_RATIO, 4)
    ELSE IF BigLess(FIRST_HALVING_THRESHOLD, total_points_spent)
    THEN FracDiv(POINT_TO_COIN_RATIO, 2)
    ELSE POINT_TO_COIN_RATIO

\* TransactionSelector::get_point_to_coin_ratio, of config.total_points_spent
get_point_to_coin_ratio(total_points_spent) ==
    IF BigLeq(SECOND_HALVING_THRESHOLD, total_points_spent)
    THEN FracDiv(POINT_TO_COIN_RATIO, 4)
    ELSE IF BigLeq(FIRST_HALVING_THRESHOLD, total_points_spent)
    THEN FracDiv(POINT_TO_COIN_RATIO, 2)
    ELSE POINT_TO_COIN_RATIO

\* The values of config.total_points_spent explored
PointsSpent ==
    { BigZero, BigFromInt(1), Dec(<<1, 0, 0, 0>>),
      Dec(<<29, 999, 999, 999>>), Dec(<<30, 0, 0, 0>>), Dec(<<30, 0, 0, 1>>),
      Dec(<<45, 0, 0, 0>>),
      Dec(<<59, 999, 999, 999>>), Dec(<<60, 0, 0, 0>>), Dec(<<60, 0, 0, 1>>),
      Dec(<<90, 0, 0, 0>>), U64Max }

\* Two selectors, each configured with its own total_points_spent
RatioInit ==
    /\ call_args \in [1..2 -> PointsSpent]
    /\ call_out = <<>>

\* A call of get_point_to_coin_ratio on the next selector
GetPointToCoinRatio ==
    /\ Len(call_out) < Len(call_args)
    /\ call_out' = Append(call_out, get_point_to_coin_ratio(call_args[Len(call_out) + 1]))
    /\ UNCHANGED call_args
    /\ UNCHANGED notCall

RatioNext == GetPointToCoinRatio

(***************************************************************************)
(* The default reward distributor (src/examples/custom_rewards.rs).        *)
(* An f64 is m * 2^-scale with a mantissa m of at most 53 binary digits;   *)
(* every f64 operation rounds its exact result to 53 digits, ties to even. *)
(***************************************************************************)
\* The nearest number with at most 53 significant binary digits
F64Round(p) ==
    IF BigBitLen(p) <= 53 THEN p
    ELSE LET s == BigBitLen(p) - 53
             top == BigShr(p, s)
             rest == BigSub(p, BigShl(top, s))
             half == BigShl(BigFromInt(1), s - 1)
             up == BigLess(half, rest) \/ (rest = half /\ BigIsOdd(top))
         IN  BigShl(IF up THEN BigAdd(top, BigFromInt(1)) ELSE top, s)

\* The f64 literals 0.90, 0.08 and 0.01
F64_0_90 == [mantissa |-> Dec(<<8, 106, 479, 329, 266, 893>>), scale |-> 53]
F64_0_08 == [mantissa |-> Dec(<<5, 764, 607, 523, 34, 235>>), scale |-> 56]
F64_0_01 == [mantissa |-> Dec(<<5, 764, 607, 523, 34, 235>>), scale |-> 59]

\* (reward as f64 * share) as u64: the conversion to f64 rounds, the
\* product rounds, the conversion back truncates and saturates
ShareAsU64(reward, share) ==
    LET product == F64Round(BigMul(F64Round(reward), share.mantissa))
        truncated == BigShr(product, share.scale)
    IN  IF BigLess(U64Max, truncated) THEN U64Max ELSE truncated

VoterInfo(validator_id, voted_for_winner) ==
    [validator_id |-> validator_id, voted_for_winner |-> voted_for_winner,
     vote_timestamp |-> 0]

\* *distributions.entry(k).or_insert(0) += v
EntryAdd(m, k, v) ==
    LET m0 == MapInsertIfAbsent(m, k, BigZero)
    IN  HashMapInsert(m0, k, BigAdd(MapGet(m0, k), v))

RECURSIVE EntryAddEach(_, _, _, _)
EntryAddEach(m, voters, i, v) ==
    IF i > Len(voters) THEN m
    ELSE EntryAddEach(EntryAdd(m, voters[i].validator_id, v), voters, i + 1, v)

\* DefaultPoAIRewards::distribute_rewards
distribute_rewards(round) ==
    LET reward == round.block_reward
        builder_reward == ShareAsU64(reward, F64_0_90)
        d1 == HashMapInsert({}, round.winning_builder_id, builder_reward)
        voter_pool == ShareAsU64(reward, F64_0_08)
        VotedForWinner(v) == v.voted_for_winner
        winning_voters == SelectSeq(round.voters, VotedForWinner)
        d2 == IF winning_voters # <<>>
              THEN EntryAddEach(d1, winning_voters, 1,
                                BigDivSmall(voter_pool, Len(winning_voters)))
              ELSE d1
        color_reward == ShareAsU64(reward, F64_0_01)
        d3 == EntryAdd(d2, round.color_validator_id, color_reward)
        network_reward == ShareAsU64(reward, F64_0_01)
        d4 == HashMapInsert(d3, "network_treasury", network_reward)
    IN  Ok([round_id |-> round.round_id,
            distributions |-> d4,
            total_distributed |-> reward])

\* The block rewards explored: small ones, 10^18, 2^53, 2^60 and u64::MAX
BlockRewards ==
    { BigZero, BigFromInt(1), BigFromInt(99), BigFromInt(100), BigFromInt(1000),
      BigFromInt(12345), Dec(<<1, 0, 0, 0, 0, 0, 0>>),
      BigShl(BigFromInt(1), 53), BigShl(BigFromInt(1), 60), U64Max }

\* The voters of a completed round: none, some against the winner, the
\* builder among them, one listed twice
VoterLists ==
    { <<>>,
      <<VoterInfo("v2", FALSE)>>,
      <<VoterInfo("v2", TRUE), VoterInfo("v3", FALSE)>>,
      <<VoterInfo("v2", TRUE), VoterInfo("v3", TRUE), VoterInfo("v4", TRUE)>>,
      <<VoterInfo("v1", TRUE), VoterInfo("v2", TRUE)>>,
      <<VoterInfo("v2", TRUE), VoterInfo("v2", TRUE)>> }

CompletedRounds ==
    [round_id : {1}, winning_builder_id : {"v1"}, winning_block_hash : {"h1"},
     voters : VoterLists, color_validator_id : {"v5", "v2", "network_treasury"},
     block_reward : BlockRewards]

RewardsInit ==
    /\ call_args \in CompletedRounds
    /\ call_out = None

\* A call of distribute_rewards on a completed round
DistributeRewards ==
    /\ call_out = None
    /\ call_out' = Some(distribute_rewards(call_args))
    /\ UNCHANGED call_args
    /\ UNCHANGED notCall

RewardsNext == DistributeRewards

(***************************************************************************)
(* Specifications: one per component, the others at rest                   *)
(***************************************************************************)
\* Every component with state of its own at rest
AllIdle ==
    SelIdle /\ CoordIdle /\ VSIdle /\ RoundIdle /\ QuorumIdle /\ BuilderIdle /\ KeyIdle /\ RevIdle
    /\ TasksIdle /\ WalletIdle

SpecProposalInit == AllIdle /\ ProposalInit
SpecProposal == SpecProposalInit /\ [][ProposalNext]_vars

SpecColorInit == AllIdle /\ ColorInit
SpecColor == SpecColorInit /\ [][ColorNext]_vars

SpecRatioInit == AllIdle /\ RatioInit
SpecRatio == SpecRatioInit /\ [][RatioNext]_vars

SpecRewardsInit == AllIdle /\ RewardsInit
SpecRewards == SpecRewardsInit /\ [][RewardsNext]_vars

SpecSelInit ==
    SelInit /\ CoordIdle /\ VSIdle /\ RoundIdle /\ QuorumIdle /\ BuilderIdle /\ KeyIdle /\ RevIdle
    /\ CallIdle /\ TasksIdle /\ WalletIdle
SpecSel == SpecSelInit /\ [][SelNext]_vars

SpecCoordInit ==
    SelIdle /\ CoordInit /\ VSIdle /\ RoundIdle /\ QuorumIdle /\ BuilderIdle /\ KeyIdle /\ RevIdle
    /\ CallIdle /\ TasksIdle /\ WalletIdle
SpecCoord == SpecCoordInit /\ [][CoordNext]_vars

SpecVSInit ==
    SelIdle /\ CoordIdle /\ VSInit /\ RoundIdle /\ QuorumIdle /\ BuilderIdle /\ KeyIdle /\ RevIdle
    /\ CallIdle /\ TasksIdle /\ WalletIdle
SpecVS == SpecVSInit /\ [][VSNext]_vars

SpecWalletInit ==
    SelIdle /\ CoordIdle /\ VSIdle /\ RoundIdle /\ QuorumIdle /\ BuilderIdle /\ KeyIdle /\ RevIdle
    /\ CallIdle /\ TasksIdle /\ WalletInit
SpecWallet == SpecWalletInit /\ [][WalletNext]_vars

\* The VotingSystem under concurrent tasks
SpecTasks == SpecVSInit /\ [][TasksNext]_vars

SpecRoundInit ==
    SelIdle /\ CoordIdle /\ VSIdle /\ RoundInit /\ QuorumIdle /\ BuilderIdle /\ KeyIdle /\ RevIdle
    /\ CallIdle /\ TasksIdle /\ WalletIdle
SpecRound == SpecRoundInit /\ [][RoundNext]_vars

SpecQuorumInit ==
    SelIdle /\ CoordIdle /\ VSIdle /\ RoundIdle /\ QuorumInit /\ BuilderIdle /\ KeyIdle /\ RevIdle
    /\ CallIdle /\ TasksIdle /\ WalletIdle
SpecQuorum == SpecQuorumInit /\ [][QuorumNext]_vars

SpecBuilderInit ==
    SelIdle /\ CoordIdle /\ VSIdle /\ RoundIdle /\ QuorumIdle /\ BuilderInit /\ KeyIdle /\ RevIdle
    /\ CallIdle /\ TasksIdle /\ WalletIdle
SpecBuilder == SpecBuilderInit /\ [][BuilderNext]_vars

SpecKeyInit ==
    SelIdle /\ CoordIdle /\ VSIdle /\ RoundIdle /\ QuorumIdle /\ BuilderIdle /\ KeyInit /\ RevIdle
    /\ CallIdle /\ TasksIdle /\ WalletIdle
SpecKey == SpecKeyInit /\ [][KeyNext]_vars

\* Derivation alone, on a running clock
SpecDerive == SpecKeyInit /\ [][DeriveNext]_vars

SpecRevInit ==
    SelIdle /\ CoordIdle /\ VSIdle /\ RoundIdle /\ QuorumIdle /\ BuilderIdle /\ KeyIdle /\ RevInit
    /\ CallIdle /\ TasksIdle /\ WalletIdle
SpecRev == SpecRevInit /\ [][RevNext]_vars

\* The coordinator and the VotingSystem are separate objects sharing no
\* state: a behaviour of SpecTally is a behaviour of either one.
TallyNext ==
    \/ \E p \in ProposalLists, mp \in RoundMempools : VSIdle /\ start_voting_round(p, mp)
    \/ \E v \in Validators, h \in BlockHashes, a \in BOOLEAN : VSIdle /\ add_vote(Vote(v, h, a))
    \/ VSIdle /\ end_voting_round
    \/ CoordIdle /\ Tick
    \/ \E h \in BlockHashes : CoordIdle /\ VS_start_voting_round(h)
    \/ \E v \in Validators, h \in BlockHashes, sc \in Scores :
          CoordIdle /\ VS_cast_vote(v, h, sc)
    \/ CoordIdle /\ VS_end_voting_round
SpecTally == SpecCoordInit /\ [][TallyNext]_vars

(***************************************************************************)
(* Properties of the transaction selector (SpecSel)                        *)
(***************************************************************************)
Selection == selected[1]
BucketNames == {"high_price", "low_price", "avg_price", "oldest"}
IdsOf(seq) == [i \in 1..Len(seq) |-> seq[i].transaction.id]
NoRepeat(seq) == \A i, j \in 1..Len(seq) : i # j => seq[i] # seq[j]
HasDuplicateIds(mp) == \E i, j \in 1..Len(mp) : i < j /\ mp[i].id = mp[j].id

\* C1: the four buckets of a selection are pairwise disjoint by transaction
\* id, and no id occurs twice in one bucket.
C1_BucketsDisjoint ==
    selected # None => NoRepeat(IdsOf(all_transactions(Selection)))

\* A selection from a mempool that repeats an id, with several buckets filled
C1_Witness ==
    /\ selected # None
    /\ HasDuplicateIds(mempool)
    /\ Len(Selection.high_price) >= 1
    /\ Len(Selection.low_price) >= 1
    /\ Len(Selection.avg_price) >= 1

\* C2: the number of selected transactions is at most
\* max_transactions_per_block.
C2_TotalWithinMax ==
    selected # None =>
        /\ Selection.total_selected = Len(all_transactions(Selection))
        /\ Selection.total_selected <= config.max_transactions_per_block

\* The mempool in every order of its transactions
Reorderings(mp) ==
    {[i \in 1..Len(mp) |-> mp[p[i]]] : p \in Permutations(1..Len(mp))}

\* Lexicographic order of the transaction ids in play
IdRank(id) == CASE id = "a" -> 1 [] id = "b" -> 2 [] id = "c" -> 3 [] id = "d" -> 4

\* Neighbours of a bucket that tie on the stage's sort key are in id order
TiesById(stage, avg, bucket) ==
    \A i \in 1..(Len(bucket) - 1) :
        Cmp(stage, avg, bucket[i], bucket[i + 1]) = 0 =>
            IdRank(bucket[i].transaction.id) <= IdRank(bucket[i + 1].transaction.id)

\* C3: the selection is a function of the set of mempool transactions and the
\* configuration alone: every reordering of the mempool yields the same
\* buckets, ties on a stage's key being ordered by transaction id.
C3_OrderIndependent ==
    selected # None =>
        /\ \A q \in Reorderings(mempool) : select_transactions(q, config) = Selection
        /\ TiesById("high", Selection.avg_point_price, Selection.high_price)
        /\ TiesById("low", Selection.avg_point_price, Selection.low_price)
        /\ TiesById("avg", Selection.avg_point_price, Selection.avg_price)
        /\ TiesById("old", Selection.avg_point_price, Selection.oldest)

(***************************************************************************)
(* Properties of the coordinator's voting round (SpecCoord, SpecTally)     *)
(***************************************************************************)
LastCompleted == completed_rounds[Len(completed_rounds)]
RoundEnded == voting_result # None /\ completed_rounds # <<>>
ProposalHashes(round) == {round.proposals[i] : i \in 1..Len(round.proposals)}

\* C4: a round declares a winner only if the winning hash has votes from at
\* least quorum_threshold(n) of the n committee validators.
C4_WinnerHasQuorum ==
    (RoundEnded /\ LastCompleted.winner # None) =>
        Cardinality(ApprovingVotes(LastCompleted, LastCompleted.winner[1]))
            >= quorum_threshold(Cardinality(Validators))

\* C5: a validator that has voted in the round keeps its first vote: a later
\* vote for another block hash does not replace it.
C5_FirstVoteStays ==
    current_round # None =>
        \A e \in first_vote :
            MapGet(current_round[1].votes, e.key).block_hash = e.value.block_hash

\* C6: the winner of a round is the hash of one of the proposals the round
\* was started with.
C6_WinnerWasProposed ==
    (RoundEnded /\ LastCompleted.winner # None) =>
        LastCompleted.winner[1] \in ProposalHashes(LastCompleted)

UniqueKeys(m) == \A e1, e2 \in m : e1.key = e2.key => e1 = e2

\* C7: each validator contributes at most one vote to a round: the vote maps
\* of the coordinator and of the VotingSystem hold one entry per validator that
\* voted, and the votes counted at the end are no more than those validators.
C7_OneVotePerValidator ==
    /\ current_round # None =>
          /\ UniqueKeys(current_round[1].votes)
          /\ Cardinality(current_round[1].votes) = Cardinality(MapKeys(first_vote))
    /\ (current_round = None /\ RoundEnded) =>
          /\ UniqueKeys(LastCompleted.votes)
          /\ voting_result[1].total_votes <= Cardinality(MapKeys(first_vote))
    /\ UniqueKeys(vs_votes)
    /\ Cardinality(vs_votes) = Cardinality(MapKeys(vs_first))

\* A validator has voted twice in the coordinator's active round
C7_Witness ==
    /\ current_round # None
    /\ add_calls = 2
    /\ Cardinality(MapKeys(first_vote)) = 1

(***************************************************************************)
(* Properties of RoundState (SpecRound)                                    *)
(***************************************************************************)
\* C8: over advance_round and new_height calls the round never decreases while
\* the height is unchanged, and every change of height increases the height.
C8_RoundAndHeightMonotone ==
    [][ /\ rs'.height = rs.height => rs'.round >= rs.round
        /\ rs'.height # rs.height => rs'.height > rs.height ]_vars

(***************************************************************************)
(* Properties of validator keys (SpecKey)                                  *)
(***************************************************************************)
SigningCalls == {"sign_vote", "sign_color_validation"}

\* C9: once revoke has run on a validator key the key stays revoked, and every
\* later sign_vote or sign_color_validation on it returns an error and no
\* signature.
C9_RevokedKeySignsNothing ==
    \A i \in revoke_called :
        /\ validator_keys[i].revoked
        /\ (key_out.index = i /\ key_out.op \in SigningCalls) =>
              (~key_out.result.ok /\ key_out.result.value = <<>>)
        /\ \A h \in BlockHashes, b \in BOOLEAN :
              \A r \in sign_vote(validator_keys[i], h, b)
                       \cup sign_color_validation(validator_keys[i], h, b) : ~r.ok

\* A signing call made on a key after it was revoked
C9_Witness ==
    \E i \in revoke_called : key_out.index = i /\ key_out.op \in SigningCalls

\* C10: a validator key can never perform a master-only operation, its
\* sign_transaction always fails without a signature, and it can vote and
\* validate color markers exactly while it is not revoked.
C10_ValidatorKeyScope ==
    /\ \A i \in 1..Len(validator_keys) :
          LET key == validator_keys[i] IN
          /\ ~can_perform(key, "SendTransaction")
          /\ ~can_perform(key, "RevokeValidatorKey")
          /\ ~can_perform(key, "MigrateValidator")
          /\ can_perform(key, "Vote") <=> ~key.revoked
          /\ can_perform(key, "ValidateColorMarker") <=> ~key.revoked
          /\ \A r \in sign_transaction(key, "txdata") : ~r.ok /\ r.value = <<>>
    /\ key_out.op = "sign_transaction" =>
          (~key_out.result.ok /\ key_out.result.value = <<>>)

\* sign_transaction was called on a live key while another key is revoked
C10_Witness ==
    /\ key_out.op = "sign_transaction"
    /\ ~validator_keys[key_out.index].revoked
    /\ \E i \in 1..Len(validator_keys) : validator_keys[i].revoked

(***************************************************************************)
(* Properties of revocation certificates (SpecRev)                         *)
(***************************************************************************)
\* C11: Revocation.verify(master_public_key) reports a certificate valid
\* exactly when its signature is a signature by that master key over
\* "REVOKE_VALIDATOR" || validator_public_key || timestamp: a certificate with
\* a forged signature, or one checked against another master public key, is
\* not reported valid.
C11_VerifyChecksSignature ==
    verify_out.called =>
        LET rev == verify_out.revocation[1]
        IN  (verify_out.result = Ok(TRUE)) <=>
                VerifySignature(rev.signature, verify_out.master_public_key,
                                RevocationMessage(rev.validator_public_key, rev.timestamp))

(***************************************************************************)
(* Properties of quorum_threshold (SpecQuorum)                             *)
(***************************************************************************)
MaxQuorumSets == 5       \* committees whose quorums are enumerated as sets

\* The subsets of a committee of n validators that have q members
QuorumSets(n, q) == {S \in SUBSET (1..n) : Cardinality(S) = q}

\* C12: for a committee of n >= 1 validators quorum_threshold(n) is
\* floor(2n/3) + 1, the integer q with 3(q - 1) <= 2n < 3q: it is 1 for 1,
\* 7 for 10 and 67 for 100, it is more than 2n/3 and at most n, and any two
\* sets of q validators out of n share a member.
C12_QuorumThreshold ==
    quorum # None =>
        LET n == q_committee_size
            q == quorum[1]
        IN  /\ 3 * (q - 1) <= 2 * n
            /\ 2 * n < 3 * q
            /\ n = 1 => q = 1
            /\ n = 10 => q = 7
            /\ n = 100 => q = 67
            /\ q <= n
            /\ 2 * q > n
            /\ n <= MaxQuorumSets =>
                  \A A, B \in QuorumSets(n, q) : A \cap B # {}

\* The threshold of a committee of 100 has been computed
C12_Witness == quorum # None /\ q_committee_size = 100

(***************************************************************************)
(* Further properties of the transaction selector (SpecSel)                *)
(***************************************************************************)
\* The least integer k with k >= n * num / den
CeilingOf(n, num, den) == CHOOSE k \in 0..(n * num + den) : /\ k * den >= n * num
                                                           /\ (k - 1) * den < n * num

\* A transaction is known by its id: the ids of a mempool or of buckets
MempoolIds(mp) == {mp[i].id : i \in 1..Len(mp)}
BucketIds(bucket) == {bucket[i].transaction.id : i \in 1..Len(bucket)}

\* The ids selected once a stage has run
IdsAfter(stage) ==
    CASE stage = "high" -> BucketIds(Selection.high_price)
      [] stage = "low"  -> BucketIds(Selection.high_price \o Selection.low_price)
      [] stage = "avg"  -> BucketIds(Selection.high_price \o Selection.low_price
                                      \o Selection.avg_price)
      [] stage = "old"  -> BucketIds(all_transactions(Selection))

Unselected(stage) ==
    {from_transaction(mempool[i]) : i \in {j \in 1..Len(mempool) :
                                             mempool[j].id \notin IdsAfter(stage)}}

\* a ranks no worse than b under the key of the stage
NoWorse(stage, a, b) ==
    LET mean == SumPrices([i \in 1..Len(mempool) |-> from_transaction(mempool[i])])
                    \div Len(mempool)
        da == Abs(a.point_price - mean)
        db == Abs(b.point_price - mean)
    IN  CASE stage = "high" -> a.point_price >= b.point_price
          [] stage = "low"  -> a.point_price <= b.point_price
          [] stage = "avg"  -> da < db \/ (da = db /\ a.point_price <= b.point_price)
          [] stage = "old"  -> a.timestamp <= b.timestamp

BestRemaining(stage, bucket) ==
    \A i \in 1..Len(bucket) : \A u \in Unselected(stage) : NoWorse(stage, bucket[i], u)

C15_EmptyMempool ==
    (mempool = <<>> /\ selected # None) =>
        /\ Selection.high_price = <<>>
        /\ Selection.low_price = <<>>
        /\ Selection.avg_price = <<>>
        /\ Selection.oldest = <<>>
        /\ Selection.total_selected = 0
        /\ efficiency # None =>
              /\ efficiency[1].efficiency_score.num = 0
              /\ efficiency[1].transaction_count = 0

\* Both calls have been made on an empty mempool
C15_Witness == mempool = <<>> /\ selected # None /\ efficiency # None

(***************************************************************************)
(* Further properties of RoundState (SpecRound)                            *)
(***************************************************************************)
\* C16: advance_round, from any step, adds exactly 1 to round, sets step to
\* ProposeWindow, resets proposals_received and votes_received to 0 and
\* winner_hash to None, and leaves height and reference_efficiency as they were.
C16_AdvanceRoundEffect ==
    rs_call.op = "advance_round" =>
        /\ rs.round = rs_call.before.round + 1
        /\ rs.step = "ProposeWindow"
        /\ rs.proposals_received = 0
        /\ rs.votes_received = 0
        /\ rs.winner_hash = None
        /\ rs.height = rs_call.before.height
        /\ rs.reference_efficiency = rs_call.before.reference_efficiency

\* advance_round has run on a committed round that had a winner, counters
\* and a reference efficiency
C16_Witness ==
    /\ rs_call.op = "advance_round"
    /\ rs_call.before.step = "Committed"
    /\ rs_call.before.winner_hash # None
    /\ rs_call.before.proposals_received = 1
    /\ rs_call.before.votes_received = 1
    /\ rs_call.before.reference_efficiency = 5000

\* C17: new_height(h) leaves the round state equal to RoundState::new(h),
\* that is height h, round 0, ProposeWindow, reference_efficiency 0, counters
\* 0 and no winner, whatever the state before was.
C17_NewHeightIsFresh ==
    rs_call.op = "new_height" =>
        /\ rs.height = rs_call.arg
        /\ rs.round = 0
        /\ rs.step = "ProposeWindow"
        /\ rs.reference_efficiency = 0
        /\ rs.proposals_received = 0
        /\ rs.votes_received = 0
        /\ rs.winner_hash = None
        /\ rs = RoundState_new(rs_call.arg)

\* The next height has begun after a commit in a later round of a height
\* that had a reference efficiency and a winner
C17_Witness ==
    /\ rs_call.op = "new_height"
    /\ rs_call.arg = rs_call.before.height + 1
    /\ rs_call.before.step = "Committed"
    /\ rs_call.before.round > 0
    /\ rs_call.before.reference_efficiency = 5000
    /\ rs_call.before.winner_hash # None

(***************************************************************************)
(* Further properties of the coordinator's voting round (SpecCoord)        *)
(***************************************************************************)
\* Lexicographic order of the block hashes in play
HashRank(hash) == CASE hash = "H1" -> 1 [] hash = "H2" -> 2

\* The hashes with the most approving votes in a round
TopHashes(round) ==
    {e.key : e \in {x \in vote_counts(round) :
                        \A y \in vote_counts(round) : y.value <= x.value}}

\* C18: when two block hashes tie at the top of the tally the winner is the
\* lexicographically smaller hash, so the same votes always give the same
\* winner.
C18_TieGoesToSmallerHash ==
    (RoundEnded /\ Cardinality(TopHashes(LastCompleted)) >= 2) =>
        /\ LastCompleted.winner # None
        /\ \A h \in TopHashes(LastCompleted) :
              HashRank(LastCompleted.winner[1]) <= HashRank(h)

(***************************************************************************)
(* Properties of the block builder (SpecBuilder)                           *)
(***************************************************************************)
SeqElems(seq) == {seq[i] : i \in 1..Len(seq)}
TxIds(seq) == {seq[i].id : i \in 1..Len(seq)}
AddedOnce == \A i, j \in 1..Len(bb_added) : i # j => bb_added[i] # bb_added[j]
AddedIdsOnce == \A i, j \in 1..Len(bb_added) : i # j => bb_added[i].id # bb_added[j].id
BlockReturned == bb_out.ok /\ bb_out.value # <<>>

\* C19: a mempool transaction goes into at most one block.  Right after a
\* successful build_block no transaction of the returned block is left in
\* the builder's mempool; and when no transaction has been added to the
\* mempool twice, no transaction is in two of the blocks returned (likewise
\* for transaction ids when no id has been added twice).
C19_SelectedIntoOneBlock ==
    /\ BlockReturned =>
          SeqElems(bb_out.value[1].block.transactions) \cap SeqElems(bb_mempool) = {}
    /\ (BlockReturned /\ AddedIdsOnce) =>
          TxIds(bb_out.value[1].block.transactions) \cap TxIds(bb_mempool) = {}
    /\ AddedOnce =>
          \A i, j \in 1..Len(bb_built) :
              i # j => SeqElems(bb_built[i]) \cap SeqElems(bb_built[j]) = {}
    /\ AddedIdsOnce =>
          \A i, j \in 1..Len(bb_built) :
              i # j => TxIds(bb_built[i]) \cap TxIds(bb_built[j]) = {}

\* Two blocks have been returned, the second built from transactions added
\* after the first, and no transaction was added twice
C19_Witness ==
    /\ BlockReturned
    /\ AddedIdsOnce
    /\ Len(bb_built) = 2
    /\ bb_built[1] # <<>>
    /\ bb_built[2] # <<>>

(***************************************************************************)
(* Properties of key derivation (SpecDerive)                               *)
(***************************************************************************)
\* C20: derivation from a master key is deterministic.  Two validator keys
\* derived from the same master key with the same nonce have the same public
\* key and master_address, two derived with different nonces have different
\* public keys, and a derived key is not revoked.
C20_DerivationDeterministic ==
    \A i, j \in 1..Len(validator_keys) :
        /\ ~validator_keys[i].revoked
        /\ validator_keys[i].master_address = derived_from[i].address
        /\ derived_from[i] = derived_from[j] =>
              IF validator_keys[i].nonce = validator_keys[j].nonce
              THEN /\ validator_keys[i].public_key = validator_keys[j].public_key
                   /\ validator_keys[i].master_address = validator_keys[j].master_address
              ELSE validator_keys[i].public_key # validator_keys[j].public_key

\* The same master key has derived a key for the same nonce at two times
C20_Witness ==
    /\ Len(validator_keys) = 2
    /\ derived_from[1] = derived_from[2]
    /\ validator_keys[1].nonce = validator_keys[2].nonce
    /\ validator_keys[1].created_at # validator_keys[2].created_at

(***************************************************************************)
(* Properties of ValidatedProposal (SpecProposal)                          *)
(***************************************************************************)
\* C21: for every pair of u64 values ValidatedProposal::new sets
\* efficiency_delta to verified_efficiency - reference_efficiency, and
\* beats_reference is true exactly when efficiency_delta >= 0.
C21_DeltaAndBeatsReference ==
    call_out # None =>
        /\ ~call_out[1].panic
        /\ call_out[1].value[1].efficiency_delta =
              SIntSub(SInt(FALSE, call_args.verified_efficiency),
                      SInt(FALSE, call_args.reference_efficiency))
        /\ call_out[1].value[1].beats_reference <=>
              ~call_out[1].value[1].efficiency_delta.neg

(***************************************************************************)
(* Properties of wallet colors (SpecColor)                                 *)
(***************************************************************************)
\* A string of exactly 6 hex digits, and one of exactly 6 lowercase hex digits
SixHex(str) ==
    /\ Len(str) = 6
    /\ \A i \in 1..6 : \E k \in 1..16 : str[i] = LowerHexDigits[k] \/ str[i] = UpperHexDigits[k]
SixLowerHex(str) ==
    /\ Len(str) = 6
    /\ \A i \in 1..6 : \E k \in 1..16 : str[i] = LowerHexDigits[k]

\* The number a string of 6 hex digits writes
ColorNumber(str) ==
    HexVal(str[1]) * 1048576 + HexVal(str[2]) * 65536 + HexVal(str[3]) * 4096
      + HexVal(str[4]) * 256 + HexVal(str[5]) * 16 + HexVal(str[6])

\* C22: for a current color c and a hex_tx t of 6 hex digits each,
\* calculate_new_color returns (c + t) mod 0x1000000 written as exactly 6
\* lowercase hex digits (000001 + 000001 = 000002, ffffff + 000002 = 000001),
\* itself a valid color; an input that is not exactly 6 hex digits yields
\* an error.
C22_NewColor ==
    call_out # None =>
        LET c == call_args.current_color
            t == call_args.hex_tx
            r == call_out[1]
        IN  IF SixHex(c) /\ SixHex(t)
            THEN /\ r.ok
                 /\ SixLowerHex(r.value[1])
                 /\ is_valid_hex(r.value[1])
                 /\ ColorNumber(r.value[1]) = (ColorNumber(c) + ColorNumber(t)) % 16777216
                 /\ (c = <<"0", "0", "0", "0", "0", "1">> /\ t = c) =>
                        r.value[1] = <<"0", "0", "0", "0", "0", "2">>
                 /\ (c = <<"f", "f", "f", "f", "f", "f">>
                        /\ t = <<"0", "0", "0", "0", "0", "2">>) =>
                        r.value[1] = <<"0", "0", "0", "0", "0", "1">>
            ELSE ~r.ok

\* The sum of ffffff and 000002 has been computed and has wrapped
C22_Witness ==
    /\ call_out # None
    /\ call_args.current_color = <<"f", "f", "f", "f", "f", "f">>
    /\ call_args.hex_tx = <<"0", "0", "0", "0", "0", "2">>
    /\ call_out[1].ok

(***************************************************************************)
(* Properties of the block efficiency (SpecSel)                            *)
(***************************************************************************)
\* The order of two fractions with positive denominators
FracLeq(a, b) == a.num * b.den <= b.num * a.den

\* The transactions of the selection the efficiency was computed for
EfficiencyInput == all_transactions(selected[1])

RECURSIVE TotalPointData(_)
TotalPointData(txs) ==
    IF txs = <<>> THEN 0 ELSE Head(txs).point_data + TotalPointData(Tail(txs))

\* C23: for every non-empty selection efficiency_score is
\* 40 * fill + 0.60 * price_stability with fill =
\* min(1, total point_data / target_block_size); fill lies in [0, 1],
\* price_stability in [0, 100] and the score in [0, 100].
C23_EfficiencyScore ==
    (efficiency # None /\ EfficiencyInput # <<>>) =>
        LET e == efficiency[1]
            total == TotalPointData(EfficiencyInput)
            fill == IF total >= config.target_block_size THEN Frac(1, 1)
                    ELSE Frac(total, config.target_block_size)
        IN  /\ e.fill_percentage = fill
            /\ FracLeq(Frac(0, 1), e.fill_percentage)
            /\ FracLeq(e.fill_percentage, Frac(1, 1))
            /\ FracLeq(Frac(0, 1), e.price_stability)
            /\ FracLeq(e.price_stability, Frac(100, 1))
            /\ e.efficiency_score =
                   FracAdd(Frac(40 * fill.num, fill.den),
                           Frac(3 * e.price_stability.num, 5 * e.price_stability.den))
            /\ FracLeq(Frac(0, 1), e.efficiency_score)
            /\ FracLeq(e.efficiency_score, Frac(100, 1))

\* An efficiency computed for a selection holding more point data than the
\* target, with prices that differ
C23_Witness ==
    /\ efficiency # None
    /\ EfficiencyInput # <<>>
    /\ TotalPointData(EfficiencyInput) > config.target_block_size
    /\ efficiency[1].price_stability # Frac(100, 1)
    /\ efficiency[1].price_stability # Frac(0, 1)

\* Every selected transaction has the same point_price
SamePointPrice(txs) ==
    \A i, j \in 1..Len(txs) : txs[i].point_price = txs[j].point_price

\* C24: when every selected transaction has the same point_price the
\* price_stability is exactly 100; when the total point_data also reaches
\* target_block_size the efficiency_score is exactly 100.
C24_SamePriceFullScore ==
    (efficiency # None /\ EfficiencyInput # <<>> /\ SamePointPrice(EfficiencyInput)) =>
        /\ efficiency[1].price_stability = Frac(100, 1)
        /\ TotalPointData(EfficiencyInput) >= config.target_block_size =>
               efficiency[1].efficiency_score = Frac(100, 1)

\* An efficiency computed for several transactions of one price that fill
\* the block
C24_Witness ==
    /\ efficiency # None
    /\ Len(EfficiencyInput) >= 2
    /\ SamePointPrice(EfficiencyInput)
    /\ TotalPointData(EfficiencyInput) >= config.target_block_size

(***************************************************************************)
(* Properties of the point-to-coin ratio (SpecRatio)                       *)
(***************************************************************************)
\* The number of halvings at a total of points spent
Halvings(points) ==
    IF BigLess(points, Dec(<<30, 0, 0, 0>>)) THEN 0
    ELSE IF BigLess(points, Dec(<<60, 0, 0, 0>>)) THEN 1
    ELSE 2

\* C25: get_point_to_coin_ratio returns 0.001 / 2^h, where h is 0 below
\* 30 * 10^9 points spent, 1 from 30 * 10^9 up to but not including
\* 60 * 10^9, and 2 from 60 * 10^9 on; the ratio never increases as
\* total_points_spent grows.
C25_RatioHalves ==
    /\ \A i \in 1..Len(call_out) :
          call_out[i] = Frac(1, 1000 * Pow2(Halvings(call_args[i])))
    /\ (Len(call_out) = 2 /\ BigLeq(call_args[1], call_args[2])) =>
          FracLeq(call_out[2], call_out[1])

\* The ratio has been read just below and exactly at the second threshold
C25_Witness ==
    /\ Len(call_out) = 2
    /\ call_args[1] = Dec(<<59, 999, 999, 999>>)
    /\ call_args[2] = Dec(<<60, 0, 0, 0>>)
    /\ call_out[1] # call_out[2]

(***************************************************************************)
(* Properties of addresses (SpecKey)                                       *)
(***************************************************************************)
\* C26: the address of a master key is "0x" followed by the hex encoding
\* of the first 20 bytes of SHA3-256(public_key).
C26_AddressFromFirstBytes ==
    master_key # None =>
        master_key[1].address =
            <<"0", "x">> \o HexEncode(SubSeq(Sha3_256(master_key[1].public_key), 1, 20))

(***************************************************************************)
(* Properties of the default reward distributor (SpecRewards)              *)
(***************************************************************************)
\* floor(percent % of reward)
FloorPercent(reward, percent) == BigDivSmall(BigMulSmall(reward, percent), 100)

RECURSIVE SumAmounts(_)
SumAmounts(m) ==
    IF m = {} THEN BigZero
    ELSE LET e == CHOOSE x \in m : TRUE
         IN  BigAdd(e.value, SumAmounts(m \ {e}))

\* The ids of the voters who voted for the winner
WinningVoterIds(round) ==
    {round.voters[i].validator_id :
        i \in {j \in 1..Len(round.voters) : round.voters[j].voted_for_winner}}

\* Builder, winning voters, color validator and treasury are all different
\* accounts, and no voter is listed twice
DistinctPayees(round) ==
    /\ round.winning_builder_id \notin
          WinningVoterIds(round) \cup {round.color_validator_id, "network_treasury"}
    /\ round.color_validator_id \notin WinningVoterIds(round) \cup {"network_treasury"}
    /\ "network_treasury" \notin WinningVoterIds(round)
    /\ \A i, j \in 1..Len(round.voters) :
          round.voters[i].validator_id = round.voters[j].validator_id => i = j

\* C27: the default distributor pays floor(90%) of block_reward to the
\* winning builder, floor(8%) split equally, rounding down, among the
\* voters who voted for the winner, floor(1%) to the color validator and
\* floor(1%) to the treasury; for every completed round the amounts in the
\* distribution map sum to at most block_reward.
C27_DefaultSplit ==
    call_out # None =>
        LET round == call_args
            paid == call_out[1].value[1].distributions
            winners == WinningVoterIds(round)
        IN  /\ BigLeq(SumAmounts(paid), round.block_reward)
            /\ DistinctPayees(round) =>
                  /\ MapGet(paid, round.winning_builder_id) =
                        FloorPercent(round.block_reward, 90)
                  /\ \A id \in winners :
                        MapGet(paid, id) =
                          BigDivSmall(FloorPercent(round.block_reward, 8),
                                      Cardinality(winners))
                  /\ MapGet(paid, round.color_validator_id) =
                        FloorPercent(round.block_reward, 1)
                  /\ MapGet(paid, "network_treasury") =
                        FloorPercent(round.block_reward, 1)

(***************************************************************************)
(* Properties of the VotingSystem calls (SpecVS)                           *)
(***************************************************************************)
\* C28: start_voting_round succeeds only when no round is active; called
\* while a round is active it returns VotingError("Voting round already in
\* progress") and leaves the active round and all recorded votes unchanged.
\* On success it clears all previous votes, so has_voted is false for
\* every validator immediately afterwards.
C28_StartVotingRound ==
    vs_call.op = "start_voting_round" =>
        /\ vs_out.ok <=> vs_call.round_before = None
        /\ vs_call.round_before # None =>
              /\ vs_out = Err("Voting round already in progress")
              /\ vs_round = vs_call.round_before
              /\ vs_votes = vs_call.votes_before
        /\ vs_out.ok =>
              /\ vs_votes = {}
              /\ \A v \in Validators : ~has_voted(v)
              /\ vs_round # None
              /\ vs_round[1].block_hash = vs_call.block_hash

\* A round has been started while votes of the round before were recorded
C28_Witness ==
    /\ vs_call.op = "start_voting_round"
    /\ vs_out.ok
    /\ vs_call.votes_before # {}

\* The vote a cast_vote call is to record is accepted: a round is active,
\* the vote names its block hash and the time is not past its ends_at
VoteAcceptable ==
    /\ vs_call.round_before # None
    /\ vs_call.round_before[1].block_hash = vs_call.block_hash
    /\ vs_call.at <= vs_call.round_before[1].ends_at

\* C29: cast_vote records a vote only if a round is active, the vote's
\* block hash equals the active round's block hash and the current time is
\* not later than ends_at = started_at + voting_window; in every other
\* case it returns a VotingError and the vote map is unchanged, so no vote
\* is accepted after the voting window has closed.
C29_CastVote ==
    /\ vs_round # None => vs_round[1].ends_at = vs_round[1].started_at + VotingWindow
    /\ vs_call.op = "cast_vote" =>
          IF VoteAcceptable
          THEN /\ vs_out.ok
               /\ vs_call.validator_id \in MapKeys(vs_votes)
               /\ MapGet(vs_votes, vs_call.validator_id).block_hash = vs_call.block_hash
               /\ {e \in vs_votes : e.key # vs_call.validator_id} =
                      {e \in vs_call.votes_before : e.key # vs_call.validator_id}
          ELSE /\ ~vs_out.ok
               /\ vs_out.error \in {"No active voting round", "Vote for wrong block hash",
                                     "Voting window has closed"}
               /\ vs_votes = vs_call.votes_before

\* A vote for the block of the active round has been refused after ends_at
C29_Witness ==
    /\ vs_call.op = "cast_vote"
    /\ vs_call.round_before # None
    /\ vs_call.round_before[1].block_hash = vs_call.block_hash
    /\ vs_call.at > vs_call.round_before[1].ends_at
    /\ vs_out = Err("Voting window has closed")

RECURSIVE TotalScore(_)
TotalScore(votes) ==
    IF votes = {} THEN 0
    ELSE LET e == CHOOSE x \in votes : TRUE
         IN  e.value.score + TotalScore(votes \ {e})

\* The outcome end_voting_round is to have on a round that was active
EndsActiveRound ==
    IF Cardinality(vs_call.votes_before) < MinVoters
    THEN vs_out = Err("InsufficientParticipation")
    ELSE /\ vs_out.ok
         /\ vs_out.value[1].block_hash = vs_call.round_before[1].block_hash
         /\ vs_out.value[1].votes = vs_call.votes_before
         /\ vs_out.value[1].approved <=>
               TotalScore(vs_call.votes_before) > 50 * Cardinality(vs_call.votes_before)

\* C30 as stated: end_voting_round returns InsufficientParticipation
\* exactly when fewer than min_voters votes are recorded; otherwise it
\* returns a result for the ended round's block hash containing exactly the
\* recorded votes, with approved = true if and only if the mean vote score
\* is strictly greater than 50.
C30_EndVotingRound ==
    vs_call.op = "end_voting_round" =>
        /\ (vs_out = Err("InsufficientParticipation")) <=>
              Cardinality(vs_call.votes_before) < MinVoters
        /\ Cardinality(vs_call.votes_before) >= MinVoters =>
              /\ vs_out.ok
              /\ EndsActiveRound

\* C30 amended: end_voting_round on an active round returns
\* InsufficientParticipation exactly when fewer than min_voters votes are
\* recorded, and otherwise a result for the ended round's block hash
\* containing exactly the recorded votes, approved if and only if the
\* mean score is strictly greater than 50; with no active round it
\* returns VotingError("No active voting round"), whatever votes are
\* recorded.
C30_EndActiveVotingRound ==
    vs_call.op = "end_voting_round" =>
        IF vs_call.round_before # None
        THEN /\ EndsActiveRound
             /\ (vs_out = Err("InsufficientParticipation")) <=>
                   Cardinality(vs_call.votes_before) < MinVoters
             /\ vs_round = None
        ELSE /\ vs_out = Err("No active voting round")
             /\ vs_round = None
             /\ vs_votes = vs_call.votes_before

\* A round has ended with three votes whose mean score is exactly 50
C30_Witness ==
    /\ vs_call.op = "end_voting_round"
    /\ vs_call.round_before # None
    /\ Cardinality(vs_call.votes_before) = MinVoters
    /\ TotalScore(vs_call.votes_before) = 50 * MinVoters
    /\ vs_out.ok
    /\ ~vs_out.value[1].approved

\* The state an end_voting_round call leaves: no round is active, and a
\* call made with no round active has returned an error
AfterEndNoRound ==
    vs_call.op = "end_voting_round" =>
        /\ vs_round = None
        /\ vs_call.round_before # None =>
              (vs_out.ok \/ vs_out = Err("InsufficientParticipation"))
        /\ vs_call.round_before = None => ~vs_out.ok

\* A start_voting_round that is the first call after an end_voting_round
\* succeeds
StartAfterEndSucceeds ==
    (vs_call.op = "end_voting_round" /\ vs_call'.op = "start_voting_round") =>
        (vs_out'.ok /\ vs_round' # None)

\* C31: every end_voting_round call made while a round is active leaves no
\* round active, whether it returns a result or InsufficientParticipation;
\* hence after start, end the next start_voting_round always succeeds, and
\* end_voting_round with no active round returns an error.
C31_EndLeavesNoRound == []AfterEndNoRound /\ [][StartAfterEndSucceeds]_vars

\* A round has been ended for insufficient participation and none is active
C31_Witness ==
    /\ vs_call.op = "end_voting_round"
    /\ vs_call.round_before # None
    /\ vs_out = Err("InsufficientParticipation")
    /\ vs_round = None

(***************************************************************************)
(* Properties of the VotingSystem under concurrent tasks (SpecTasks)       *)
(***************************************************************************)
\* The two tasks have each made one call, a start_voting_round, and both
\* calls have returned: the only calls made on the VotingSystem
BothStartedOnce ==
    \A t \in Tasks :
        /\ tasks[t].calls = 1
        /\ tasks[t].op = "start_voting_round"
        /\ tasks[t].pc = "idle"

\* C32: when start_voting_round is invoked concurrently by two tasks on a
\* VotingSystem with no active round, at most one invocation returns Ok
\* and the other returns the 'already in progress' error; the active round
\* is never silently replaced by another round.
C32_OneStartWins ==
    /\ BothStartedOnce =>
          /\ Cardinality({t \in Tasks : tasks[t].out.ok}) <= 1
          /\ \E t \in Tasks : tasks[t].out.error = "Voting round already in progress"
    /\ \A t \in Tasks : ~tasks[t].replaced

\* C33: under every interleaving of concurrent cast_vote, end_voting_round
\* and start_voting_round calls, each vote held in the vote map while a
\* round is active carries that round's block hash: a vote validated
\* against an earlier round is never recorded into, or counted in the
\* result of, a later round.
C33_VotesOfActiveRound ==
    /\ vs_round # None =>
          \A e \in vs_votes : e.value.block_hash = vs_round[1].block_hash
    /\ \A t \in Tasks :
          (tasks[t].op = "end_voting_round" /\ tasks[t].pc = "idle"
              /\ tasks[t].out.ok) =>
             \A e \in tasks[t].out.value[1].votes :
                 e.value.block_hash = tasks[t].out.value[1].block_hash

(***************************************************************************)
(* C34  KeyManager::revoke_validator and the keys with that public key     *)
(***************************************************************************)
\* A validator key that can sign a vote or a color validation
CanSign(key) ==
    \/ \E h \in BlockHashes : \E r \in sign_vote(key, h, TRUE) : r.ok
    \/ \E r \in sign_color_validation(key, "txhash", TRUE) : r.ok

\* The effect the claim gives a revoke_validator(pk) call
RevokeSilencesPublicKey(pk) ==
    revoke_validator(pk) =>
        IF key_out'.result.ok
        THEN /\ \A i \in 1..Len(validator_keys') :
                   validator_keys'[i].public_key = pk => ~CanSign(validator_keys'[i])
             /\ \A i \in 1..Len(validator_keys) :
                   validator_keys[i].public_key # pk
                       => validator_keys'[i].revoked = validator_keys[i].revoked
        ELSE /\ pk \notin KnownPublicKeys
             /\ validator_keys' = validator_keys

\* C34: after revoke_validator(pk) returns Ok no key the manager holds with
\* public key pk can sign a vote or a color validation, whatever derivations
\* came before (the same nonce twice included); the keys with another public
\* key keep their revoked flag, and revoking an unknown public key returns
\* an error and revokes nothing.
C34_RevokeSilencesPublicKey ==
    [][\A pk \in KnownPublicKeys \cup {StrangerPublicKey} : RevokeSilencesPublicKey(pk)]_vars

(***************************************************************************)
(* C35  A master key exported and imported again                           *)
(***************************************************************************)
\* The i-th and the j-th validator key were derived with one nonce from
\* master keys holding the same private key
SamePrivateKeyAndNonce(i, j) ==
    /\ derived_from[i].private_key = derived_from[j].private_key
    /\ validator_keys[i].nonce = validator_keys[j].nonce

\* C35: a master key made by from_private_key from the exported private key
\* of another, at any later time, is equivalent for derivation: it has the
\* same address and derives the same validator public key for the same nonce.
C35_ImportedMasterDerivesSame ==
    \A i, j \in 1..Len(validator_keys) :
        SamePrivateKeyAndNonce(i, j) =>
            /\ derived_from[i].address = derived_from[j].address
            /\ validator_keys[i].public_key = validator_keys[j].public_key

(***************************************************************************)
(* C36  CoordinatorNode: the completed rounds and the returned result      *)
(***************************************************************************)
\* C36: after any sequence of start_voting_round, add_vote and
\* end_voting_round calls the i-th entry of completed_rounds (counted from 0)
\* has round_id i, every completed round has ended_at set, and the result
\* end_voting_round returned carries the round_id and the winner of the
\* round it ended.
C36_CompletedRoundsNumbered ==
    /\ \A i \in 1..Len(completed_rounds) :
          /\ completed_rounds[i].round_id = i - 1
          /\ completed_rounds[i].ended
    /\ voting_result # None =>
          /\ Len(completed_rounds) > 0
          /\ voting_result[1].round_id = LastCompleted.round_id
          /\ voting_result[1].winner = LastCompleted.winner

\* Two rounds ended, the result of the second one naming its winner
C36_Witness ==
    /\ Len(completed_rounds) = 2
    /\ current_round = None
    /\ voting_result # None
    /\ voting_result[1].round_id = 1
    /\ voting_result[1].winner # None

(***************************************************************************)
(* C37  CoordinatorNode: an active round is never lost                     *)
(***************************************************************************)
\* `later` is the round `round` with every validator's vote still in it
SameRoundKeepingVotes(round, later) ==
    /\ later.round_id = round.round_id
    /\ later.proposals = round.proposals
    /\ MapKeys(round.votes) \subseteq MapKeys(later.votes)

\* A step from a state with an active round: the round stays active with
\* its votes, or it is ended and pushed to completed_rounds with its votes
ActiveRoundKept ==
    current_round # None =>
        \/ /\ current_round' # None
           /\ SameRoundKeepingVotes(current_round[1], current_round'[1])
        \/ /\ current_round' = None
           /\ Len(completed_rounds') = Len(completed_rounds) + 1
           /\ SameRoundKeepingVotes(current_round[1],
                                    completed_rounds'[Len(completed_rounds')])
           /\ completed_rounds'[Len(completed_rounds')].votes = current_round[1].votes

\* C37: CoordinatorNode never loses an active round: a started round with
\* its votes is the round the next end_voting_round ends and pushes to
\* completed_rounds, and start_voting_round called while a round is active
\* discards neither that round nor its votes.
C37_ActiveRoundNeverLost == [][ActiveRoundKept]_vars

(***************************************************************************)
(* C38  A mempool that fits into the block is selected whole               *)
(***************************************************************************)
\* The mempool holds at most max_transactions_per_block transactions and
\* no id twice
MempoolFitsBlock ==
    /\ Len(mempool) <= config.max_transactions_per_block
    /\ \A i, j \in 1..Len(mempool) : mempool[i].id = mempool[j].id => i = j

\* The positions of the flat list that hold the transaction tx
PositionsOf(tx, list) == {k \in 1..Len(list) : list[k] = tx}

\* The buckets of a selection in the order high, low, avg, oldest
BucketsInOrder(sel) ==
    [i \in 1..4 |-> CASE i = 1 -> sel.high_price [] i = 2 -> sel.low_price
                      [] i = 3 -> sel.avg_price  [] i = 4 -> sel.oldest]

RECURSIVE Flatten(_)
Flatten(lists) == IF lists = <<>> THEN <<>> ELSE Head(lists) \o Flatten(Tail(lists))

\* C38: when the mempool holds at most max_transactions_per_block
\* transactions with pairwise distinct ids, select_transactions selects
\* every mempool transaction exactly once (total_selected is the size of the
\* mempool), and all_transactions and into_transactions list the selection in
\* the order high, low, avg, oldest with length total_selected.
C38_SmallMempoolSelectedWhole ==
    (selected # None /\ MempoolFitsBlock) =>
        LET sel == selected[1]
            flat == Flatten(BucketsInOrder(sel))
        IN  /\ sel.total_selected = Len(mempool)
            /\ \A i \in 1..Len(mempool) :
                  Cardinality(PositionsOf(mempool[i], into_transactions(sel))) = 1
            /\ all_transactions(sel) = flat
            /\ into_transactions(sel) = [k \in 1..Len(flat) |-> flat[k].transaction]
            /\ Len(all_transactions(sel)) = sel.total_selected
            /\ Len(into_transactions(sel)) = sel.total_selected

\* A mempool of three distinct transactions under a limit of three, selected
\* into the high, the low and the average bucket
C38_Witness ==
    /\ selected # None
    /\ MempoolFitsBlock
    /\ Len(mempool) = 3
    /\ selected[1].total_selected = 3
    /\ Len(selected[1].high_price) = 1
    /\ Len(selected[1].low_price) = 1
    /\ Len(selected[1].avg_price) = 1
    /\ selected[1].high_price # selected[1].low_price

(***************************************************************************)
(* C39  The configured minimum fee and the selected transactions           *)
(***************************************************************************)
\* C39: every selected transaction has a point_price of at least the
\* configured min_transaction_fee, for every mempool and every configured
\* minimum fee.
C39_SelectedPayMinimumFee ==
    selected # None =>
        \A k \in 1..Len(all_transactions(selected[1])) :
            all_transactions(selected[1])[k].point_price >= config.min_transaction_fee

(***************************************************************************)
(* C40  The initial color of a new wallet                                  *)
(***************************************************************************)
\* C40: a new wallet's initial color is generated once and kept: the
\* get_wallet_color calls on a wallet with no update in between return one
\* color, so two validations of the same transaction start from the same
\* sender color.
C40_InitialColorKept ==
    \A r1, r2 \in color_reads : r1.address = r2.address => r1.color = r2.color
====
